---- MODULE Spec2Model ----
(***************************************************************************)
(* Model of the weather application (codebyniranjan/weatherapp).           *)
(*                                                                         *)
(* Weather module (src/unnamed/part_001, lines 198-635): the in-memory     *)
(* cache weatherCache, the asynchronous fetch functions and the formatting *)
(* functions.                                                              *)
(*                                                                         *)
(* Spec is the cache protocol: calls of fetchCurrentWeather and            *)
(* fetchForecastWeather, each a sequence of steps separated by its awaits, *)
(* interleaved with one another and with the passing of time.  SpecFormat  *)
(* is the formatting of cached data by formatWeatherData,                  *)
(* processDailyForecast and processHourlyForecast.  SpecProcess is the     *)
(* data processing and alert functions applied to given arguments.         *)
(* SpecLocate is the calls of fetchWeatherByCoordinates together with      *)
(* calls of fetchCurrentWeather that fill the cache.                       *)
(*                                                                         *)
(* Search history module (src/unnamed/part_001, lines 1-197) and the       *)
(* stored data of src/js/auth.js: localStorage holds the users, the        *)
(* session and one history for each user.  SpecHistory is the calls of     *)
(* addToHistory, clearSearchHistory and removeHistoryEntry on a storage    *)
(* in which users have searched before.                                    *)
(*                                                                         *)
(* Authentication module (src/js/auth.js) and settings module              *)
(* (src/unnamed/part_000, lines 195-352): the users and the session in     *)
(* localStorage, and the object SETTINGS_CONFIG.DEFAULT_SETTINGS of the    *)
(* page.  SpecAuth is the calls of their functions on the storages earlier *)
(* pages have left; SpecAccount adds the functions of the search history   *)
(* to them.  Texts are strings; Len, SubSeq and \o apply to them.          *)
(*                                                                         *)
(* Encoding of numbers: temperatures and wind speeds are JavaScript        *)
(* numbers with one decimal; they are held here as integers in tenths, so  *)
(* 31.6 degrees is 316.  Times are milliseconds.                           *)
(***************************************************************************)
EXTENDS Integers, Sequences, FiniteSets, TLC

VARIABLES
    weatherCache,   \* weatherCache = { current: {}, forecast: {} }
    now,            \* the value Date.now() returns, in milliseconds
    calls,          \* the calls of the fetch functions made so far
    shown,          \* the results of the formatting calls made so far
    ticks,          \* how many times the clock has advanced (bounds the model)
    localStorage,   \* window.localStorage: the string stored under each key
    ops,            \* the calls made on the stored data: their number and the last one
    DEFAULT_SETTINGS \* the object SETTINGS_CONFIG.DEFAULT_SETTINGS of the page

vars == <<weatherCache, now, calls, shown, ticks, localStorage, ops, DEFAULT_SETTINGS>>

----------------------------------------------------------------------------
(* Bounds of the model *)

MaxCalls == 2       \* calls of the fetch functions in one behaviour
MaxTicks == 3       \* advances of the clock in one behaviour
MaxShown == 3       \* formatting calls in one behaviour

----------------------------------------------------------------------------
(* Configuration *)

\* WEATHER_CONFIG.CACHE_DURATION: 10 minutes in milliseconds
CACHE_DURATION == 10 * 60 * 1000

Kinds == {"current", "forecast"}

\* City names as the user types them; "Paris" and "paris" differ only in case.
Cities == {"Paris", "paris"}

\* HTTP statuses a response can carry; response.ok is true for 200..299.
Statuses == {200, 401, 404, 500}

ResponseOk(status) == status >= 200 /\ status <= 299

\* Amounts by which the clock advances between two steps: 5 minutes, so that
\* an entry is seen at the ages of 0, 5, 10 (the limit) and 15 minutes.
TickSteps == {CACHE_DURATION \div 2}

----------------------------------------------------------------------------
(* Payloads of the weather provider (the JSON bodies response.json() gives) *)

\* A body of the /weather endpoint: main.temp and the like in tenths of a
\* degree Celsius (units=metric), wind.speed in tenths of m/s, visibility in
\* metres, dt in seconds.
RawCurrent(name, temp, feels, tmin, tmax, hum, cond, wind, vis) ==
    [ name       |-> name,
      sys        |-> [country |-> "FR"],
      main       |-> [temp |-> temp, feels_like |-> feels, temp_min |-> tmin,
                      temp_max |-> tmax, humidity |-> hum, pressure |-> 1013],
      weather    |-> <<[main |-> cond, description |-> cond, icon |-> "01d"]>>,
      wind       |-> [speed |-> wind, deg |-> 180],
      clouds     |-> [all |-> 0],
      visibility |-> vis,
      timezone   |-> 3600,
      dt         |-> 86400 ]

\* An item of the list of a /forecast body: pop in thousandths.
RawItem(dt, temp, hum, cond, icon, wind, pop) ==
    [ dt      |-> dt,
      main    |-> [temp |-> temp, humidity |-> hum],
      weather |-> <<[main |-> cond, icon |-> icon]>>,
      wind    |-> [speed |-> wind],
      pop     |-> pop ]

CurrentPayloads ==
    { RawCurrent("Paris", 316, 330, 300, 325, 50, "Clear", 52, 10000),
      RawCurrent("Paris", 45, 21, 40, 55, 90, "Rain", 123, 1500) }

ForecastPayloads ==
    { [list |-> << RawItem(86400, 125, 60, "Clouds", "03d", 31, 100),
                   RawItem(97200, 148, 55, "Clear", "01d", 42, 0),
                   RawItem(172800, 95, 81, "Rain", "10d", 77, 875) >>],
      [list |-> << RawItem(172800, -15, 70, "Snow", "13d", 20, 555),
                   RawItem(259200, 5, 75, "Snow", "13n", 25, 400) >>] }

Payloads(kind) == IF kind = "current" THEN CurrentPayloads ELSE ForecastPayloads

----------------------------------------------------------------------------
(* Cache management *)

\* An object with no own property: the initial {} of both cache maps.
EmptyMap == [k \in {} |-> 0]

\* obj[key] = value on a JavaScript object
SetProperty(obj, key, value) ==
    [k \in (DOMAIN obj) \cup {key} |-> IF k = key THEN value ELSE obj[k]]

\* No call was made on the stored data.
NoOps == [count |-> 0, last |-> <<>>]

\* SETTINGS_CONFIG.DEFAULT_SETTINGS as the script writes it.
DefaultSettingsLiteral ==
    [ temperatureUnit |-> "celsius",
      defaultCity     |-> "Thiruvananthapuram",
      enableAlerts    |-> TRUE,
      darkMode        |-> TRUE ]

\* city.toLowerCase(), for the city names of this model: "Paris" is the one
\* with a capital letter.
LowerCase(city) == IF city = "Paris" THEN "paris" ELSE city

\* The property name under which a city is cached, as an implementation that
\* normalises the letter case would compute it.
CacheKeyLower(city) == LowerCase(city)

\* The property name under which a city is cached: weatherCache.current[city],
\* the string as passed.
CacheKey(city) == city

\* isCacheValid that never accepts an entry
isCacheValidNever(map, key, t) == FALSE

\* isCacheValid(map[key]) evaluated when Date.now() = t: the entry exists, its
\* timestamp is truthy and its age is below CACHE_DURATION.
isCacheValid(map, key, t) ==
    /\ key \in DOMAIN map
    /\ map[key].timestamp # 0
    /\ (t - map[key].timestamp) < CACHE_DURATION

----------------------------------------------------------------------------
(* API fetch functions *)

\* CacheMap for a forecast function that was copied from the current one
\* with the name of the map left as it was.
CacheMapShared(kind) == "current"

\* The map of weatherCache a fetch function reads and writes:
\* fetchCurrentWeather uses weatherCache.current, fetchForecastWeather
\* weatherCache.forecast.
CacheMap(kind) == kind

\* The message of the Error thrown for a response with !response.ok.
ErrorMessage(kind, status) ==
    IF kind = "current"
    THEN IF status = 404
         THEN "City not found. Please check the spelling and try again."
         ELSE IF status = 401
              THEN "API key error. Please contact support."
              ELSE "Failed to fetch weather data. Please try again."
    ELSE IF status = 404
         THEN "City not found for forecast data."
         ELSE "Failed to fetch forecast data."

\* The calls that have settled (returned or thrown) so far.
Settled == {i \in 1..Len(calls) : calls[i].pc \in {"returned", "threw"}}

\* An entry is stored under exactly the string city in the map of kind and
\* it is older than 10 minutes.
StoredStale(kind, city) ==
    /\ city \in DOMAIN weatherCache[kind]
    /\ now - weatherCache[kind][city].timestamp > CACHE_DURATION

\* A call of fetchCurrentWeather(city) / fetchForecastWeather(city) up to its
\* first await.  pc is where the call stands: "fetch" (awaiting fetch(url)),
\* "json" (awaiting response.json()), "returned" or "threw".  reqs counts the
\* fetch(url) calls it made.  Two fields record the history of the call:
\* stale, whether it began with an entry older than 10 minutes, and after,
\* the calls that had settled when it began.
NewCall(kind, city, hit) ==
    [ kind      |-> kind,
      city      |-> city,
      pc        |-> IF hit THEN "returned" ELSE "fetch",
      reqs      |-> IF hit THEN 0 ELSE 1,
      status    |-> 0,
      value     |-> IF hit THEN <<weatherCache[CacheMap(kind)][CacheKey(city)].data>>
                    ELSE <<>>,
      error     |-> "",
      stale     |-> StoredStale(kind, city),
      after     |-> Settled ]

\* StartCall under a single-flight rule: a miss waits while another request
\* is in flight.
StartCallSingleFlight(kind, city) ==
    /\ Len(calls) < MaxCalls
    /\ LET hit == isCacheValid(weatherCache[CacheMap(kind)], CacheKey(city), now)
       IN /\ hit \/ \A j \in 1..Len(calls) : calls[j].pc \notin {"fetch", "json"}
          /\ calls' = Append(calls, NewCall(kind, city, hit))
    /\ UNCHANGED <<weatherCache, now, shown, ticks, localStorage, ops, DEFAULT_SETTINGS>>

\* The synchronous first part of a call: the cache check, then either the
\* return of the cached data or fetch(url).
StartCall(kind, city) ==
    /\ Len(calls) < MaxCalls
    /\ LET hit == isCacheValid(weatherCache[CacheMap(kind)], CacheKey(city), now)
       IN calls' = Append(calls, NewCall(kind, city, hit))
    /\ UNCHANGED <<weatherCache, now, shown, ticks, localStorage, ops, DEFAULT_SETTINGS>>

\* What a failing call does to the cache when it drops the entry of its city.
CacheAfterFailureEvict(kind, city) ==
    [weatherCache EXCEPT ![CacheMap(kind)] =
        [k \in (DOMAIN @) \ {CacheKey(city)} |-> @[k]]]

\* What a failing call does to the cache: the catch block logs and rethrows.
CacheAfterFailure(kind, city) == weatherCache

Throw(i, status, message) ==
    /\ calls' = [calls EXCEPT ![i].pc = "threw", ![i].status = status,
                              ![i].error = message]
    /\ weatherCache' = CacheAfterFailure(calls[i].kind, calls[i].city)

\* fetch(url) resolves with a response of the given status.
FetchResponds(i, status) ==
    /\ calls[i].pc = "fetch"
    /\ IF ResponseOk(status)
       THEN /\ calls' = [calls EXCEPT ![i].pc = "json", ![i].status = status]
            /\ UNCHANGED weatherCache
       ELSE Throw(i, status, ErrorMessage(calls[i].kind, status))
    /\ UNCHANGED <<now, shown, ticks, localStorage, ops, DEFAULT_SETTINGS>>

\* fetch(url) rejects (no network): the catch block rethrows the error.
FetchRejects(i) ==
    /\ calls[i].pc = "fetch"
    /\ Throw(i, 0, "TypeError: Failed to fetch")
    /\ UNCHANGED <<now, shown, ticks, localStorage, ops, DEFAULT_SETTINGS>>

\* The cache after a successful call that stores only when no entry exists.
CacheAfterSuccessKeepFirst(kind, city, data) ==
    IF CacheKey(city) \in DOMAIN weatherCache[CacheMap(kind)]
    THEN weatherCache
    ELSE [weatherCache EXCEPT ![CacheMap(kind)] =
            SetProperty(@, CacheKey(city), [data |-> data, timestamp |-> now])]

\* The cache after a successful call that keeps the timestamp of an entry it
\* overwrites.
CacheAfterSuccessOldStamp(kind, city, data) ==
    [weatherCache EXCEPT ![CacheMap(kind)] =
        SetProperty(@, CacheKey(city),
            [data |-> data,
             timestamp |-> IF CacheKey(city) \in DOMAIN @
                           THEN @[CacheKey(city)].timestamp ELSE now])]

\* The cache after a successful call that also purges the stale entries.
CacheAfterSuccessPurge(kind, city, data) ==
    [m \in Kinds |->
        LET kept == {k \in DOMAIN weatherCache[m] :
                        now - weatherCache[m][k].timestamp < CACHE_DURATION}
            old  == [k \in kept |-> weatherCache[m][k]]
        IN IF m = CacheMap(kind)
           THEN SetProperty(old, CacheKey(city), [data |-> data, timestamp |-> now])
           ELSE old]

\* weatherCache.current[city] = { data: data, timestamp: Date.now() }
CacheAfterSuccess(kind, city, data) ==
    [weatherCache EXCEPT ![CacheMap(kind)] =
        SetProperty(@, CacheKey(city), [data |-> data, timestamp |-> now])]

\* response.json() resolves with data: the call caches and returns it.
JsonResolves(i, data) ==
    /\ calls[i].pc = "json"
    /\ data \in Payloads(calls[i].kind)
    /\ weatherCache' = CacheAfterSuccess(calls[i].kind, calls[i].city, data)
    /\ calls' = [calls EXCEPT ![i].pc = "returned", ![i].value = <<data>>]
    /\ UNCHANGED <<now, shown, ticks, localStorage, ops, DEFAULT_SETTINGS>>

\* response.json() rejects (the body is not JSON): the catch block rethrows.
JsonRejects(i) ==
    /\ calls[i].pc = "json"
    /\ Throw(i, calls[i].status, "SyntaxError: Unexpected token")
    /\ UNCHANGED <<now, shown, ticks, localStorage, ops, DEFAULT_SETTINGS>>

\* Time passes: Date.now() grows by d milliseconds.
Tick(d) ==
    /\ ticks < MaxTicks
    /\ now' = now + d
    /\ ticks' = ticks + 1
    /\ UNCHANGED <<weatherCache, calls, shown, localStorage, ops, DEFAULT_SETTINGS>>

----------------------------------------------------------------------------
(* Data processing functions *)

Units == {"celsius", "fahrenheit"}

\* The integer part of n / den in the place of Math.round, for n >= 0.
MathRoundTruncating(n, den) == n \div den

\* Math.round(n / den) for den > 0: the nearest integer, halves upwards.
MathRound(n, den) == (2 * n + den) \div (2 * den)

\* convertTemperature with the factor of the opposite conversion, 5/9.
convertTemperatureInverseFactor(celsius, unit) ==
    IF unit = "fahrenheit" THEN (celsius * 25) \div 9 + 1600 ELSE celsius * 5

\* convertTemperature(celsius, unit), for celsius in tenths of a degree; the
\* result is in fiftieths of a degree, in which both branches are integers:
\* (celsius * 9/5) + 32 is (9 * tenths + 1600) / 50, and celsius is 5 * tenths / 50.
convertTemperature(celsius, unit) ==
    IF unit = "fahrenheit" THEN celsius * 9 + 1600 ELSE celsius * 5

\* Math.round(convertTemperature(celsius, unit))
RoundedTemperature(celsius, unit) == MathRound(convertTemperature(celsius, unit), 50)

UnitSymbol(unit) == IF unit = "celsius" THEN "C" ELSE "F"

\* formatWeatherData that rounds the temperatures as they are given and only
\* takes the symbol from the unit.
formatWeatherDataUnconverted(data, unit) ==
    [ city        |-> data.name,
      country     |-> data.sys.country,
      temperature |-> RoundedTemperature(data.main.temp, "celsius"),
      feelsLike   |-> RoundedTemperature(data.main.feels_like, "celsius"),
      tempMin     |-> RoundedTemperature(data.main.temp_min, "celsius"),
      tempMax     |-> RoundedTemperature(data.main.temp_max, "celsius"),
      description |-> data.weather[1].description,
      main        |-> data.weather[1].main,
      icon        |-> data.weather[1].icon,
      humidity    |-> data.main.humidity,
      pressure    |-> data.main.pressure,
      windSpeed   |-> data.wind.speed,
      windDeg     |-> data.wind.deg,
      clouds      |-> data.clouds.all,
      visibility  |-> MathRound(data.visibility, 1000),
      timezone    |-> data.timezone,
      unitSymbol  |-> UnitSymbol(unit) ]

\* The object formatWeatherData(data, unit) returns.  iconUrl and the Date
\* objects sunrise, sunset and timestamp are left out of the record.
formatWeatherData(data, unit) ==
    [ city        |-> data.name,
      country     |-> data.sys.country,
      temperature |-> RoundedTemperature(data.main.temp, unit),
      feelsLike   |-> RoundedTemperature(data.main.feels_like, unit),
      tempMin     |-> RoundedTemperature(data.main.temp_min, unit),
      tempMax     |-> RoundedTemperature(data.main.temp_max, unit),
      description |-> data.weather[1].description,
      main        |-> data.weather[1].main,
      icon        |-> data.weather[1].icon,
      humidity    |-> data.main.humidity,
      pressure    |-> data.main.pressure,
      windSpeed   |-> data.wind.speed,
      windDeg     |-> data.wind.deg,
      clouds      |-> data.clouds.all,
      visibility  |-> MathRound(data.visibility, 1000),
      timezone    |-> data.timezone,
      unitSymbol  |-> UnitSymbol(unit) ]

\* The calendar date of an instant in the local time of a browser 5 hours 30
\* minutes east of UTC.
DateKeyLocal(dt) == (dt + 19800) \div 86400

\* The calendar date of toISOString() for an instant of dt seconds: the UTC
\* day, numbered from 1970-01-01.
DateKey(dt) == dt \div 86400

RECURSIVE DistinctInOrder(_)
\* The distinct elements of a sequence in the order of their first
\* appearance: the order of the own string keys of an object filled in
\* that order.
DistinctInOrder(seq) ==
    IF seq = <<>> THEN <<>>
    ELSE LET front == DistinctInOrder(SubSeq(seq, 1, Len(seq) - 1))
             last  == seq[Len(seq)]
         IN IF \E i \in 1..Len(front) : front[i] = last
            THEN front ELSE Append(front, last)

RECURSIVE SumSeq(_)
SumSeq(seq) == IF seq = <<>> THEN 0 ELSE seq[1] + SumSeq(Tail(seq))

MinOf(seq) == CHOOSE x \in {seq[i] : i \in 1..Len(seq)} :
                  \A j \in 1..Len(seq) : x <= seq[j]

MaxOf(seq) == CHOOSE x \in {seq[i] : i \in 1..Len(seq)} :
                  \A j \in 1..Len(seq) : x >= seq[j]

Count(seq, x) == Cardinality({i \in 1..Len(seq) : seq[i] = x})

RECURSIVE ReduceDominantKeepFirst(_, _, _)
\* The reduce with the comparison >=, which keeps the accumulator on a tie.
ReduceDominantKeepFirst(a, keys, conditions) ==
    IF keys = <<>> THEN a
    ELSE LET b == keys[1]
         IN ReduceDominantKeepFirst(
                IF Count(conditions, a) >= Count(conditions, b) THEN a ELSE b,
                Tail(keys), conditions)

RECURSIVE ReduceDominant(_, _, _)
\* keys.reduce((a, b) => counts[a] > counts[b] ? a : b) from accumulator a
\* over the remaining keys, counts being the occurrences in conditions.
ReduceDominant(a, keys, conditions) ==
    IF keys = <<>> THEN a
    ELSE LET b == keys[1]
         IN ReduceDominant(IF Count(conditions, a) > Count(conditions, b) THEN a ELSE b,
                           Tail(keys), conditions)

\* The most common condition of a day as processDailyForecast computes it.
DominantCondition(conditions) ==
    LET keys == DistinctInOrder(conditions)
    IN ReduceDominant(keys[1], Tail(keys), conditions)

\* The summary of the items of one date.
DaySummary(dateKey, items, unit) ==
    LET temps      == [i \in 1..Len(items) |-> items[i].main.temp]
        conditions == [i \in 1..Len(items) |-> items[i].weather[1].main]
        icons      == [i \in 1..Len(items) |-> items[i].weather[1].icon]
        humidity   == [i \in 1..Len(items) |-> items[i].main.humidity]
        wind       == [i \in 1..Len(items) |-> items[i].wind.speed]
    IN [ date        |-> dateKey,
         minTemp     |-> RoundedTemperature(MinOf(temps), unit),
         maxTemp     |-> RoundedTemperature(MaxOf(temps), unit),
         condition   |-> DominantCondition(conditions),
         icon        |-> icons[(Len(icons) \div 2) + 1],
         avgHumidity |-> MathRound(SumSeq(humidity), Len(humidity)),
         avgWind     |-> MathRound(SumSeq(wind), Len(wind)),
         unitSymbol  |-> UnitSymbol(unit) ]

\* processDailyForecast without the slice(0, 5).
processDailyForecastUncut(forecastData, unit) ==
    LET list == forecastData.list
        keys == DistinctInOrder([i \in 1..Len(list) |-> DateKey(list[i].dt)])
    IN [d \in 1..Len(keys) |->
            DaySummary(keys[d],
                       SelectSeq(list, LAMBDA it : DateKey(it.dt) = keys[d]),
                       unit)]

\* The array processDailyForecast(forecastData, unit) returns: one summary
\* per date in the order the dates appear, cut to 5.  dateString (a
\* locale rendering of date) and iconUrl are left out.
processDailyForecast(forecastData, unit) ==
    LET list == forecastData.list
        keys == DistinctInOrder([i \in 1..Len(list) |-> DateKey(list[i].dt)])
        days == [d \in 1..Len(keys) |->
                    DaySummary(keys[d],
                               SelectSeq(list, LAMBDA it : DateKey(it.dt) = keys[d]),
                               unit)]
    IN SubSeq(days, 1, IF Len(days) < 5 THEN Len(days) ELSE 5)

\* processHourlyForecast with Math.floor(pop * 100).
processHourlyForecastFloorPop(forecastData, unit) ==
    LET list  == forecastData.list
        first == SubSeq(list, 1, IF Len(list) < 8 THEN Len(list) ELSE 8)
    IN [i \in 1..Len(first) |->
            [ temp       |-> RoundedTemperature(first[i].main.temp, unit),
              condition  |-> first[i].weather[1].main,
              icon       |-> first[i].weather[1].icon,
              pop        |-> first[i].pop \div 10,
              unitSymbol |-> UnitSymbol(unit) ]]

\* The array processHourlyForecast(forecastData, unit) returns: the first 8
\* items; pop, in thousandths, becomes Math.round(pop * 100).  time (a locale
\* rendering of dt) and iconUrl are left out.
processHourlyForecast(forecastData, unit) ==
    LET list  == forecastData.list
        first == SubSeq(list, 1, IF Len(list) < 8 THEN Len(list) ELSE 8)
    IN [i \in 1..Len(first) |->
            [ temp       |-> RoundedTemperature(first[i].main.temp, unit),
              condition  |-> first[i].weather[1].main,
              icon       |-> first[i].weather[1].icon,
              pop        |-> MathRound(first[i].pop, 10),
              unitSymbol |-> UnitSymbol(unit) ]]

----------------------------------------------------------------------------
(* Weather alerts logic *)

\* An element of the array generateWeatherAlerts returns.  message (a text
\* with the values in it) and icon are left out.
Alert(type, severity, title) == [type |-> type, severity |-> severity, title |-> title]

\* The heat branch with the limits included.
HeatAlertsInclusive(weatherData) ==
    IF weatherData.temperature >= 35
    THEN << Alert("heat", "high", "Extreme Heat Warning") >>
    ELSE IF weatherData.temperature >= 30
         THEN << Alert("heat", "medium", "Heat Advisory") >>
         ELSE << >>

\* if (temperature > 35) ... else if (temperature > 30) ...; temperature is
\* in whole degrees of the display unit.
HeatAlerts(weatherData) ==
    IF weatherData.temperature > 35
    THEN << Alert("heat", "high", "Extreme Heat Warning") >>
    ELSE IF weatherData.temperature > 30
         THEN << Alert("heat", "medium", "Heat Advisory") >>
         ELSE << >>

\* if (temperature < 10) ...
ColdAlerts(weatherData) ==
    IF weatherData.temperature < 10
    THEN << Alert("cold", "medium", "Cold Weather Alert") >>
    ELSE << >>

\* if (windSpeed > 15) ... else if (windSpeed > 10) ...; windSpeed is in
\* tenths of m/s, so the limits are 150 and 100.
WindAlerts(weatherData) ==
    IF weatherData.windSpeed > 150
    THEN << Alert("wind", "high", "Strong Wind Warning") >>
    ELSE IF weatherData.windSpeed > 100
         THEN << Alert("wind", "medium", "Windy Conditions") >>
         ELSE << >>

\* if (main === 'Rain' || main === 'Drizzle') ...
RainAlerts(weatherData) ==
    IF weatherData.main = "Rain" \/ weatherData.main = "Drizzle"
    THEN << Alert("rain", "medium", "Rain Alert") >>
    ELSE << >>

\* if (main === 'Thunderstorm') ...
StormAlerts(weatherData) ==
    IF weatherData.main = "Thunderstorm"
    THEN << Alert("storm", "high", "Thunderstorm Warning") >>
    ELSE << >>

\* if (visibility < 2) ...; visibility is in km.
VisibilityAlerts(weatherData) ==
    IF weatherData.visibility < 2
    THEN << Alert("visibility", "medium", "Poor Visibility") >>
    ELSE << >>

\* if (humidity > 85) ...
HumidityAlerts(weatherData) ==
    IF weatherData.humidity > 85
    THEN << Alert("humidity", "low", "High Humidity") >>
    ELSE << >>

\* generateWeatherAlerts with the storm test moved to the front.
generateWeatherAlertsStormFirst(weatherData) ==
    StormAlerts(weatherData) \o HeatAlerts(weatherData) \o ColdAlerts(weatherData)
        \o WindAlerts(weatherData) \o RainAlerts(weatherData)
        \o VisibilityAlerts(weatherData) \o HumidityAlerts(weatherData)

\* The array generateWeatherAlerts(weatherData) returns: the alerts pushed by
\* the tests in the order of the function's text.
generateWeatherAlerts(weatherData) ==
    HeatAlerts(weatherData) \o ColdAlerts(weatherData) \o WindAlerts(weatherData)
        \o RainAlerts(weatherData) \o StormAlerts(weatherData)
        \o VisibilityAlerts(weatherData) \o HumidityAlerts(weatherData)

----------------------------------------------------------------------------
(* Formatting of cached data: the functions applied to the cache *)

\* The three formatting functions by name.
Formatters == {"formatWeatherData", "processDailyForecast", "processHourlyForecast"}

\* The cache map whose data a formatting function is given.
FormatterKind(fn) == IF fn = "formatWeatherData" THEN "current" ELSE "forecast"

ApplyFormatter(fn, data, unit) ==
    IF fn = "formatWeatherData" THEN formatWeatherData(data, unit)
    ELSE IF fn = "processDailyForecast" THEN processDailyForecast(data, unit)
    ELSE processHourlyForecast(data, unit)

\* A temperature in tenths Celsius overwritten with its converted value, in
\* tenths of the target unit.
ConvertInPlace(celsius, unit) == convertTemperature(celsius, unit) \div 5

\* The argument object after a formatting call that writes the converted
\* temperatures back into it.
ArgumentAfterFormatWritesBack(fn, data, unit) ==
    IF fn = "formatWeatherData"
    THEN [data EXCEPT !.main.temp = ConvertInPlace(@, unit),
                      !.main.feels_like = ConvertInPlace(@, unit),
                      !.main.temp_min = ConvertInPlace(@, unit),
                      !.main.temp_max = ConvertInPlace(@, unit)]
    ELSE [data EXCEPT !.list =
            [i \in 1..Len(@) |-> [@[i] EXCEPT !.main.temp = ConvertInPlace(@, unit)]]]

\* The argument object (data, forecastData) after a formatting call: the
\* three functions read it and assign to none of its properties; the arrays
\* and objects they fill are their own.
ArgumentAfterFormat(fn, data, unit) == data

\* A page formats the cached data of a city for display: the object it
\* passes is the one the cache entry holds.
Format(fn, city, unit) ==
    LET kind == FormatterKind(fn)
    IN /\ Len(shown) < MaxShown
       /\ city \in DOMAIN weatherCache[kind]
       /\ LET data == weatherCache[kind][city].data
          IN /\ shown' = Append(shown, [fn |-> fn, city |-> city, unit |-> unit,
                                        out |-> ApplyFormatter(fn, data, unit)])
             /\ weatherCache' = [weatherCache EXCEPT ![kind][city].data =
                                    ArgumentAfterFormat(fn, data, unit)]
       /\ UNCHANGED <<now, calls, ticks, localStorage, ops, DEFAULT_SETTINGS>>

----------------------------------------------------------------------------
(* The cache protocol *)

\* The module is loaded: both maps are empty objects and no call was made.
\* Date.now() is some positive instant.
Init ==
    /\ weatherCache = [current |-> EmptyMap, forecast |-> EmptyMap]
    /\ now = 1
    /\ calls = <<>>
    /\ shown = <<>>
    /\ ticks = 0
    /\ localStorage = EmptyMap
    /\ ops = NoOps
    /\ DEFAULT_SETTINGS = DefaultSettingsLiteral

Next ==
    \/ \E kind \in Kinds, city \in Cities : StartCall(kind, city)
    \/ \E i \in 1..Len(calls), status \in Statuses : FetchResponds(i, status)
    \/ \E i \in 1..Len(calls) : FetchRejects(i)
    \/ \E i \in 1..Len(calls), data \in CurrentPayloads \cup ForecastPayloads :
            JsonResolves(i, data)
    \/ \E i \in 1..Len(calls) : JsonRejects(i)
    \/ \E d \in TickSteps : Tick(d)

Spec == Init /\ [][Next]_vars

----------------------------------------------------------------------------
(* fetchWeatherByCoordinates (src/unnamed/part_001, lines 620-634) *)

\* fetchWeatherByCoordinates(lat, lon) is called, lat and lon in hundredths
\* of a degree: it runs up to its first await, that of fetch(url).  pc, reqs,
\* status, value and error are those of the calls of the other two functions.
FetchWeatherByCoordinates(lat, lon) ==
    /\ Len(calls) < MaxCalls
    /\ calls' = Append(calls, [ kind   |-> "coordinates",
                                lat    |-> lat,
                                lon    |-> lon,
                                pc     |-> "fetch",
                                reqs   |-> 1,
                                status |-> 0,
                                value  |-> <<>>,
                                error  |-> "" ])
    /\ UNCHANGED <<weatherCache, now, shown, ticks, localStorage, ops, DEFAULT_SETTINGS>>

\* fetch(url) resolves with a response of the given status: the call goes
\* on to response.json(), or throws when !response.ok.
CoordinatesFetchResponds(i, status) ==
    /\ calls[i].kind = "coordinates"
    /\ calls[i].pc = "fetch"
    /\ calls' = IF ResponseOk(status)
                THEN [calls EXCEPT ![i].pc = "json", ![i].status = status]
                ELSE [calls EXCEPT ![i].pc = "threw", ![i].status = status,
                                   ![i].error = "Failed to fetch weather by location"]
    /\ UNCHANGED <<weatherCache, now, shown, ticks, localStorage, ops, DEFAULT_SETTINGS>>

\* response.json() resolves with data and the call returns it, having put it
\* into weatherCache.current under the name of the place.
CoordinatesJsonResolvesCaching(i, data) ==
    /\ calls[i].kind = "coordinates"
    /\ calls[i].pc = "json"
    /\ calls' = [calls EXCEPT ![i].pc = "returned", ![i].value = <<data>>]
    /\ weatherCache' = CacheAfterSuccess("current", data.name, data)
    /\ UNCHANGED <<now, shown, ticks, localStorage, ops, DEFAULT_SETTINGS>>

\* response.json() resolves with data: the call returns it.
CoordinatesJsonResolves(i, data) ==
    /\ calls[i].kind = "coordinates"
    /\ calls[i].pc = "json"
    /\ calls' = [calls EXCEPT ![i].pc = "returned", ![i].value = <<data>>]
    /\ UNCHANGED <<weatherCache, now, shown, ticks, localStorage, ops, DEFAULT_SETTINGS>>

\* The promise the call awaits rejects, that of fetch(url) (no network) or
\* that of response.json() (the body is not JSON): the catch block logs the
\* error and throws it again.
CoordinatesAwaitRejects(i) ==
    /\ calls[i].kind = "coordinates"
    /\ calls[i].pc \in {"fetch", "json"}
    /\ calls' = [calls EXCEPT ![i].pc = "threw",
                              ![i].error = IF calls[i].pc = "fetch"
                                           THEN "TypeError: Failed to fetch"
                                           ELSE "SyntaxError: Unexpected token"]
    /\ UNCHANGED <<weatherCache, now, shown, ticks, localStorage, ops, DEFAULT_SETTINGS>>

\* The page asks for the weather of "Paris" by name, which succeeds and fills
\* the cache, and for the weather at the coordinates of Paris and of
\* Thiruvananthapuram; time passes between the steps.
NextLocate ==
    \/ StartCall("current", "Paris")
    \/ \E i \in {j \in 1..Len(calls) : calls[j].kind \in Kinds} : FetchResponds(i, 200)
    \/ \E i \in {j \in 1..Len(calls) : calls[j].kind \in Kinds}, data \in CurrentPayloads :
          JsonResolves(i, data)
    \/ \E place \in {<<4886, 235>>, <<852, 7694>>} :
          FetchWeatherByCoordinates(place[1], place[2])
    \/ \E i \in 1..Len(calls), status \in Statuses : CoordinatesFetchResponds(i, status)
    \/ \E i \in 1..Len(calls), data \in CurrentPayloads : CoordinatesJsonResolves(i, data)
    \/ \E i \in 1..Len(calls) : CoordinatesAwaitRejects(i)
    \/ \E d \in TickSteps : Tick(d)

SpecLocate == Init /\ [][NextLocate]_vars

----------------------------------------------------------------------------
(* Formatting of cached data *)

\* Both maps hold an entry for each city, stored by earlier successful
\* fetches; the formatting calls follow.
InitFormat ==
    /\ \E cur \in [Cities -> CurrentPayloads], fore \in [Cities -> ForecastPayloads] :
          weatherCache =
              [ current  |-> [c \in Cities |-> [data |-> cur[c], timestamp |-> 1]],
                forecast |-> [c \in Cities |-> [data |-> fore[c], timestamp |-> 1]] ]
    /\ now = 1
    /\ calls = <<>>
    /\ shown = <<>>
    /\ ticks = 0
    /\ localStorage = EmptyMap
    /\ ops = NoOps
    /\ DEFAULT_SETTINGS = DefaultSettingsLiteral

NextFormat ==
    \E fn \in Formatters, city \in Cities, unit \in Units : Format(fn, city, unit)

SpecFormat == InitFormat /\ [][NextFormat]_vars

----------------------------------------------------------------------------
(* The data processing and alert functions on given arguments *)

\* Celsius temperatures, in tenths, passed to convertTemperature: 0 and 100
\* degrees, negative values, and values with a decimal.
CelsiusInputs == {-400, -178, -15, 0, 5, 25, 45, 99, 100, 304, 316, 320, 355, 1000}

\* A formatted snapshot as far as generateWeatherAlerts reads it.
Snapshot(temperature, windSpeed, main, visibility, humidity) ==
    [ temperature |-> temperature, windSpeed |-> windSpeed, main |-> main,
      visibility |-> visibility, humidity |-> humidity, unitSymbol |-> "C" ]

\* Snapshots on both sides of every limit generateWeatherAlerts tests.
AlertSnapshots ==
    { Snapshot(t, w, m, v, h) :
        t \in {9, 10, 20, 30, 31, 35, 36},
        w \in {50, 100, 101, 150, 151, 200},
        m \in {"Clear", "Rain", "Drizzle", "Thunderstorm"},
        v \in {1, 2, 10},
        h \in {50, 85, 86, 90} }

\* Bodies of the /weather endpoint around the limits: temperatures in tenths
\* of a degree Celsius, visibility in metres.
RawInputs ==
    { RawCurrent("Paris", t, t, t - 10, t + 10, 50, "Clear", 52, v) :
        t \in {-15, 94, 95, 100, 304, 305, 320, 350, 354, 355, 360},
        v \in {1400, 1499, 1500, 1999, 2000, 10000} }

\* The first instant, in seconds, of the UTC day the forecasts begin on.
FirstDay == 19000 * 86400

\* The conditions and icons the items of the forecasts carry.
ItemConditions == <<"Clear", "Clouds", "Rain">>

ItemIcons == <<"01d", "03d", "10d", "01n">>

\* The i-th item of a forecast at dt: its values vary with i, temperatures
\* between -16.0 and 24.7 degrees, pop between 0 and 1.  The pops with a
\* third decimal of 5 are eighths (0.125, 0.375, ...), whose product with 100
\* is exact in floating point; the wind speeds are multiples of 0.8 m/s, so
\* that no average of a day lies halfway between two tenths.
ItemAt(dt, i) ==
    RawItem(dt, ((i * 37) % 408) - 160, 40 + ((i * 13) % 50),
            ItemConditions[((i * i) % 3) + 1], ItemIcons[(i % 4) + 1],
            8 * ((i * 17) % 11), (i * 125) % 1001)

\* A body of the /forecast endpoint: n items at 3-hour intervals, the first
\* at the given hour of FirstDay.
Regular(hour, n) ==
    [list |-> [i \in 1..n |-> ItemAt(FirstDay + hour * 3600 + (i - 1) * 10800, i)]]

\* The bodies of the provider: 40 items (5 days) beginning at midnight UTC or
\* within a day, and shorter and longer ones.
RegularForecasts ==
    { Regular(hour, n) : hour \in {0, 3, 12, 21}, n \in {1, 7, 8, 9, 16, 40, 41} }

\* A list whose items fall on the given days (numbered from FirstDay), in
\* the given order: days may come back and need not ascend.
Scattered(days) ==
    [list |-> [i \in 1..Len(days) |-> ItemAt(FirstDay + days[i] * 86400 + 43200, i)]]

ScatteredForecasts ==
    { Scattered(<<1, 2, 3, 4, 5, 6, 7>>),
      Scattered(<<7, 6, 5, 4, 3, 2, 1>>),
      Scattered(<<3, 1, 3, 7, 2, 1, 5, 4, 6, 3>>),
      Scattered(<<9, 9, 2, 1, 2, 4, 9, 8, 3, 1, 6, 3>>) }

\* The longest of the lists made of every choice of items.
MaxItems == 4

\* Items of three days; those of the middle day differ in condition and
\* temperature.  The wind speeds are multiples of 0.4 m/s.
SmallItems ==
    { RawItem(FirstDay + 43200, 125, 60, "Clear", "01d", 32, 100),
      RawItem(FirstDay + 54000, 80, 71, "Rain", "10d", 76, 875),
      RawItem(FirstDay + 64800, -15, 90, "Clouds", "03d", 48, 280),
      RawItem(FirstDay + 86400, 148, 55, "Clear", "01n", 44, 0),
      RawItem(FirstDay - 10800, 95, 81, "Rain", "10n", 20, 550) }

\* Every list of at most MaxItems of these items, the empty one included.
SmallForecasts ==
    { [list |-> l] : l \in UNION { [1..n -> SmallItems] : n \in 0..MaxItems } }

ForecastInputs == RegularForecasts \cup ScatteredForecasts \cup SmallForecasts

\* A call of the function fn with the arguments args that has not run yet.
Request(fn, args) == [fn |-> fn, args |-> args, out |-> <<>>]

\* The last call asked for is one of fn and has not run yet.
Asked(fn) ==
    /\ shown # <<>>
    /\ shown[Len(shown)].fn = fn
    /\ shown[Len(shown)].out = <<>>

\* The last call with its result.
Answered(result) == [shown EXCEPT ![Len(shown)].out = <<result>>]

\* convertTemperature(celsius, unit) is called.
ConvertTemperature ==
    /\ Asked("convertTemperature")
    /\ LET args == shown[Len(shown)].args
       IN shown' = Answered(convertTemperature(args[1], args[2]))
    /\ UNCHANGED <<weatherCache, now, calls, ticks, localStorage, ops, DEFAULT_SETTINGS>>

\* formatWeatherData(data, unit) is called.
FormatWeatherData ==
    /\ Asked("formatWeatherData")
    /\ LET args == shown[Len(shown)].args
       IN shown' = Answered(formatWeatherData(args[1], args[2]))
    /\ UNCHANGED <<weatherCache, now, calls, ticks, localStorage, ops, DEFAULT_SETTINGS>>

\* generateWeatherAlerts(weatherData) is called.
GenerateWeatherAlerts ==
    /\ Asked("generateWeatherAlerts")
    /\ LET args == shown[Len(shown)].args
       IN shown' = Answered(generateWeatherAlerts(args[1]))
    /\ UNCHANGED <<weatherCache, now, calls, ticks, localStorage, ops, DEFAULT_SETTINGS>>

\* The object formatWeatherData returned is passed to generateWeatherAlerts:
\* it is the object with the fields temperature, windSpeed, main, visibility,
\* humidity and unitSymbol that function reads.
PassToAlerts ==
    /\ Len(shown) = 1
    /\ shown[1].fn = "formatWeatherData"
    /\ shown[1].out # <<>>
    /\ shown' = Append(shown, Request("generateWeatherAlerts", <<shown[1].out[1]>>))
    /\ UNCHANGED <<weatherCache, now, calls, ticks, localStorage, ops, DEFAULT_SETTINGS>>

\* processDailyForecast(forecastData, unit) is called.
ProcessDailyForecast ==
    /\ Asked("processDailyForecast")
    /\ LET args == shown[Len(shown)].args
       IN shown' = Answered(processDailyForecast(args[1], args[2]))
    /\ UNCHANGED <<weatherCache, now, calls, ticks, localStorage, ops, DEFAULT_SETTINGS>>

\* processHourlyForecast(forecastData, unit) is called.
ProcessHourlyForecast ==
    /\ Asked("processHourlyForecast")
    /\ LET args == shown[Len(shown)].args
       IN shown' = Answered(processHourlyForecast(args[1], args[2]))
    /\ UNCHANGED <<weatherCache, now, calls, ticks, localStorage, ops, DEFAULT_SETTINGS>>

\* One call is asked for, with arguments of the sets above.
InitProcess ==
    /\ weatherCache = [current |-> EmptyMap, forecast |-> EmptyMap]
    /\ now = 1
    /\ calls = <<>>
    /\ ticks = 0
    /\ localStorage = EmptyMap
    /\ ops = NoOps
    /\ DEFAULT_SETTINGS = DefaultSettingsLiteral
    /\ \/ \E celsius \in CelsiusInputs, unit \in Units :
             shown = << Request("convertTemperature", <<celsius, unit>>) >>
       \/ \E data \in RawInputs, unit \in Units :
             shown = << Request("formatWeatherData", <<data, unit>>) >>
       \/ \E weatherData \in AlertSnapshots :
             shown = << Request("generateWeatherAlerts", <<weatherData>>) >>
       \/ \E forecastData \in ForecastInputs, unit \in Units :
             \E fn \in {"processDailyForecast", "processHourlyForecast"} :
                shown = << Request(fn, <<forecastData, unit>>) >>

NextProcess ==
    \/ ConvertTemperature
    \/ FormatWeatherData
    \/ GenerateWeatherAlerts
    \/ PassToAlerts
    \/ ProcessDailyForecast
    \/ ProcessHourlyForecast

SpecProcess == InitProcess /\ [][NextProcess]_vars

----------------------------------------------------------------------------
(* Stored data: localStorage, users and session (src/js/auth.js) *)

\* localStorage.getItem(key): the string stored, or null (the empty tuple).
getItem(storage, key) == IF key \in DOMAIN storage THEN <<storage[key]>> ELSE <<>>

\* localStorage.setItem(key, value)
setItem(storage, key, value) == SetProperty(storage, key, value)

\* localStorage.removeItem(key)
removeItem(storage, key) == [k \in (DOMAIN storage) \ {key} |-> storage[k]]

\* JSON.stringify(value) and JSON.parse(text): the text of a value is held as
\* a record around the value; the values stored here (strings, numbers,
\* booleans, null, arrays and objects of these) come back equal.
JSONStringify(value) == [json |-> value]

JSONParse(text) == text.json

\* AUTH_CONFIG.USERS_KEY and AUTH_CONFIG.SESSION_KEY
USERS_KEY == "weather_app_users"

SESSION_KEY == "weather_app_session"

\* The account initializeDefaultAdmin creates when Date.now() = t.
DefaultAdmin(t) ==
    [ id          |-> "admin-" \o ToString(t),
      name        |-> "Admin",
      email       |-> "admin@weather.com",
      password    |-> "admin@123",
      createdAt   |-> t,
      isAdmin     |-> TRUE,
      preferences |-> [ temperatureUnit |-> "celsius",
                        defaultCity     |-> "Thiruvananthapuram",
                        enableAlerts    |-> TRUE,
                        darkMode        |-> TRUE ] ]

\* The account with isAdmin true.
NewUserAsAdmin(name, email, password, t) ==
    [ id          |-> ToString(t),
      name        |-> name,
      email       |-> email,
      password    |-> password,
      createdAt   |-> t,
      isAdmin     |-> TRUE,
      preferences |-> [ temperatureUnit |-> "celsius",
                        defaultCity     |-> "Thiruvananthapuram",
                        enableAlerts    |-> TRUE,
                        darkMode        |-> FALSE ] ]

\* The account registerUser creates when Date.now() = t, for a name and an
\* email already trimmed and in lower case.
NewUser(name, email, password, t) ==
    [ id          |-> ToString(t),
      name        |-> name,
      email       |-> email,
      password    |-> password,
      createdAt   |-> t,
      isAdmin     |-> FALSE,
      preferences |-> [ temperatureUnit |-> "celsius",
                        defaultCity     |-> "Thiruvananthapuram",
                        enableAlerts    |-> TRUE,
                        darkMode        |-> FALSE ] ]

\* The session loginUser stores for a user when Date.now() = t.
Session(user, t) ==
    [userId |-> user.id, name |-> user.name, email |-> user.email, loginTime |-> t]

\* getCurrentSession(): the session object, or null (the empty tuple).
getCurrentSession(storage) ==
    LET session == getItem(storage, SESSION_KEY)
    IN IF session # <<>> THEN <<JSONParse(session[1])>> ELSE <<>>

----------------------------------------------------------------------------
(* Search history module (src/unnamed/part_001, lines 1-197) *)

\* HISTORY_CONFIG
MAX_HISTORY_ITEMS == 20

HISTORY_KEY_PREFIX == "weather_history_"

\* The calls made on the stored data in one behaviour.
MaxOps == 3

\* getUserHistoryKey giving one key to every user.
getUserHistoryKeyShared(storage) ==
    LET session == getCurrentSession(storage)
    IN IF session = <<>> THEN <<>> ELSE <<HISTORY_KEY_PREFIX>>

\* getUserHistoryKey(): the key of the session user's history, or null (the
\* empty tuple) without a session.
getUserHistoryKey(storage) ==
    LET session == getCurrentSession(storage)
    IN IF session = <<>> THEN <<>> ELSE <<HISTORY_KEY_PREFIX \o session[1].userId>>

\* getSearchHistory(): the array stored for the session user, [] without a
\* session or without a stored array.
getSearchHistory(storage) ==
    LET key == getUserHistoryKey(storage)
    IN IF key = <<>> THEN <<>>
       ELSE LET history == getItem(storage, key[1])
            IN IF history # <<>> THEN JSONParse(history[1]) ELSE <<>>

\* saveSearchHistory without the limit of the size.
saveSearchHistoryUnlimited(storage, history) ==
    LET key == getUserHistoryKey(storage)
    IN IF key = <<>> THEN storage
       ELSE setItem(storage, key[1], JSONStringify(history))

\* The storage after saveSearchHistory(history): the first
\* MAX_HISTORY_ITEMS elements are stored under the session user's key;
\* nothing is stored without a session.
saveSearchHistory(storage, history) ==
    LET key == getUserHistoryKey(storage)
    IN IF key = <<>> THEN storage
       ELSE LET limitedHistory ==
                    SubSeq(history, 1, IF Len(history) < MAX_HISTORY_ITEMS
                                       THEN Len(history) ELSE MAX_HISTORY_ITEMS)
            IN setItem(storage, key[1], JSONStringify(limitedHistory))

\* The entry addToHistory creates at the instant t; the timestamp is the ISO
\* string of t, held as t itself; weatherData is null (the empty tuple) or
\* a formatted snapshot.
HistoryEntry(city, weatherData, t) ==
    [ city        |-> city,
      timestamp   |-> t,
      temperature |-> IF weatherData # <<>> THEN <<weatherData[1].temperature>> ELSE <<>>,
      condition   |-> IF weatherData # <<>> THEN <<weatherData[1].main>> ELSE <<>>,
      icon        |-> IF weatherData # <<>> THEN <<weatherData[1].icon>> ELSE <<>> ]

\* The filter that compares the city names as they are written.
WithoutCityExact(history, city) ==
    SelectSeq(history, LAMBDA item : item.city # city)

\* history.filter(item => item.city.toLowerCase() !== city.toLowerCase())
WithoutCity(history, city) ==
    SelectSeq(history, LAMBDA item : LowerCase(item.city) # LowerCase(city))

\* addToHistory that puts the entry behind the others.
addToHistoryAtEnd(storage, city, weatherData, t) ==
    LET history  == getSearchHistory(storage)
        entry    == HistoryEntry(city, weatherData, t)
        filtered == WithoutCity(history, city)
    IN saveSearchHistory(storage, filtered \o <<entry>>)

\* The storage after addToHistory(city, weatherData) at the instant t.
addToHistory(storage, city, weatherData, t) ==
    LET history  == getSearchHistory(storage)
        entry    == HistoryEntry(city, weatherData, t)
        filtered == WithoutCity(history, city)
    IN saveSearchHistory(storage, <<entry>> \o filtered)

\* The storage after clearSearchHistory().
clearSearchHistory(storage) ==
    LET key == getUserHistoryKey(storage)
    IN IF key = <<>> THEN storage ELSE removeItem(storage, key[1])

\* The storage after removeHistoryEntry(index); index counts from 0.
removeHistoryEntry(storage, index) ==
    LET history == getSearchHistory(storage)
    IN IF index >= 0 /\ index < Len(history)
       THEN saveSearchHistory(storage,
                SubSeq(history, 1, index) \o SubSeq(history, index + 2, Len(history)))
       ELSE storage

\* The call fn(args) is the last of the calls made on the stored data.
Called(fn, args) == [count |-> ops.count + 1, last |-> <<[fn |-> fn, args |-> args]>>]

\* addToHistory(city, weatherData) is called; Date.now() gives t, not
\* before the time of the call before.
AddToHistory(city, weatherData, t) ==
    /\ ops.count < MaxOps
    /\ t >= now
    /\ now' = t
    /\ localStorage' = addToHistory(localStorage, city, weatherData, t)
    /\ ops' = Called("addToHistory", <<city, weatherData>>)
    /\ UNCHANGED <<weatherCache, calls, shown, ticks, DEFAULT_SETTINGS>>

\* clearSearchHistory() is called.
ClearSearchHistory ==
    /\ ops.count < MaxOps
    /\ localStorage' = clearSearchHistory(localStorage)
    /\ ops' = Called("clearSearchHistory", <<>>)
    /\ UNCHANGED <<weatherCache, now, calls, shown, ticks, DEFAULT_SETTINGS>>

\* removeHistoryEntry(index) is called.
RemoveHistoryEntry(index) ==
    /\ ops.count < MaxOps
    /\ localStorage' = removeHistoryEntry(localStorage, index)
    /\ ops' = Called("removeHistoryEntry", <<index>>)
    /\ UNCHANGED <<weatherCache, now, calls, shown, ticks, DEFAULT_SETTINGS>>

\* City names searched for: two spellings of one city, and names all in
\* lower case.
FillerCity(k) == "city" \o ToString(k)

HistoryCities == {"Paris", "paris", FillerCity(1)}

\* The weatherData passed to addToHistory: none, or a formatted snapshot.
HistoryWeather ==
    { <<>>,
      <<formatWeatherData(RawCurrent("Paris", 316, 330, 300, 325, 50, "Clear", 52, 10000),
                          "celsius")>> }

\* The indexes passed to removeHistoryEntry: below, at both ends of and
\* beyond a full history.
HistoryIndexes == {-1, 0, MAX_HISTORY_ITEMS - 1, MAX_HISTORY_ITEMS}

\* The users stored: the default admin, created at the instant 1, and a
\* user registered at the instant 2.
StoredUsers == << DefaultAdmin(1), NewUser("Asha", "asha@mail.com", "secret1", 2) >>

\* The history a user has after searching for FillerCity(1) ... FillerCity(n)
\* at the instants 3 ... n + 2: the last city searched is in front.
Filled(n) == [i \in 1..n |-> HistoryEntry(FillerCity(n + 1 - i), <<>>, n + 3 - i)]

\* A storage holding the users, the session (or none) and the histories
\* given for some of the users.
StorageWith(session, histories) ==
    LET withUsers   == setItem(EmptyMap, USERS_KEY, JSONStringify(StoredUsers))
        withSession == IF session = <<>> THEN withUsers
                       ELSE setItem(withUsers, SESSION_KEY, JSONStringify(session[1]))
    IN [ k \in (DOMAIN withSession) \cup {HISTORY_KEY_PREFIX \o id : id \in DOMAIN histories}
            |-> IF k \in DOMAIN withSession THEN withSession[k]
                ELSE JSONStringify(histories[
                        CHOOSE id \in DOMAIN histories : HISTORY_KEY_PREFIX \o id = k]) ]

\* The users have searched before: each has no history stored, or one of
\* MAX_HISTORY_ITEMS - 1 or MAX_HISTORY_ITEMS entries; one of them, or
\* nobody, is logged in.
InitHistory ==
    /\ weatherCache = [current |-> EmptyMap, forecast |-> EmptyMap]
    /\ now = MAX_HISTORY_ITEMS + 3
    /\ calls = <<>>
    /\ shown = <<>>
    /\ ticks = 0
    /\ ops = NoOps
    /\ DEFAULT_SETTINGS = DefaultSettingsLiteral
    /\ \E session \in {<<>>} \cup {<<Session(StoredUsers[u], now)>> : u \in 1..Len(StoredUsers)} :
       \E owners \in SUBSET {StoredUsers[u].id : u \in 1..Len(StoredUsers)} :
       \E histories \in [owners -> {Filled(MAX_HISTORY_ITEMS - 1), Filled(MAX_HISTORY_ITEMS)}] :
           localStorage = StorageWith(session, histories)

NextHistory ==
    \/ \E city \in HistoryCities, weatherData \in HistoryWeather, t \in {now, now + 1} :
          AddToHistory(city, weatherData, t)
    \/ ClearSearchHistory
    \/ \E index \in HistoryIndexes : RemoveHistoryEntry(index)

SpecHistory == InitHistory /\ [][NextHistory]_vars

----------------------------------------------------------------------------
(* Strings: the methods and the regular expression src/js/auth.js uses *)

\* The character at the position i of a string, counted from 1.
CharAt(s, i) == SubSeq(s, i, i)

\* The characters \s matches and trim() removes, of those written here.
Whitespace == {" ", "\t"}

\* The lower-case letter of each upper-case letter.
LowerOf ==
    LET upper == "ABCDEFGHIJKLMNOPQRSTUVWXYZ"
        lower == "abcdefghijklmnopqrstuvwxyz"
    IN [ c \in {CharAt(upper, k) : k \in 1..Len(upper)} |->
           CharAt(lower, CHOOSE k \in 1..Len(upper) : CharAt(upper, k) = c) ]

\* s.toLowerCase()
RECURSIVE toLowerCase(_)
toLowerCase(s) ==
    IF Len(s) = 0 THEN ""
    ELSE LET c == CharAt(s, 1)
         IN (IF c \in DOMAIN LowerOf THEN LowerOf[c] ELSE c)
               \o toLowerCase(SubSeq(s, 2, Len(s)))

\* s.trim(): the whitespace in front and at the end is taken away.
RECURSIVE trim(_)
trim(s) ==
    IF Len(s) > 0 /\ CharAt(s, 1) \in Whitespace THEN trim(SubSeq(s, 2, Len(s)))
    ELSE IF Len(s) > 0 /\ CharAt(s, Len(s)) \in Whitespace THEN trim(SubSeq(s, 1, Len(s) - 1))
    ELSE s

\* emailRegex = /^[^\s@]+@[^\s@]+\.[^\s@]+$/ as an automaton.  The states
\* count what has been read: 0 nothing, 1 some of the first [^\s@]+, 2 the
\* "@", 3 some of the second [^\s@]+, 4 the "\.", 5 some of the last
\* [^\s@]+.  A "." read in the state 3 belongs to the class or is the "\.".
\* inClass: the character is one of [^\s@].
RegexStep(q, c) ==
    LET inClass == c \notin Whitespace \cup {"@"}
    IN IF q \in {0, 1} /\ inClass THEN {1}
       ELSE IF q = 1 /\ c = "@" THEN {2}
       ELSE IF q \in {2, 3} /\ inClass THEN IF q = 3 /\ c = "." THEN {3, 4} ELSE {3}
       ELSE IF q \in {4, 5} /\ inClass THEN {5}
       ELSE {}

\* The states the automaton can be in after reading s from the states given.
RECURSIVE RegexRun(_, _)
RegexRun(states, s) ==
    IF Len(s) = 0 THEN states
    ELSE RegexRun(UNION {RegexStep(q, CharAt(s, 1)) : q \in states}, SubSeq(s, 2, Len(s)))

----------------------------------------------------------------------------
(* Authentication module (src/js/auth.js) *)

MIN_PASSWORD_LENGTH == 6

\* AUTH_CONFIG.DEFAULT_ADMIN.email
DEFAULT_ADMIN_EMAIL == "admin@weather.com"

\* getAllUsers(): the array stored, [] when none is stored.
getAllUsers(storage) ==
    LET users == getItem(storage, USERS_KEY)
    IN IF users # <<>> THEN JSONParse(users[1]) ELSE <<>>

\* The storage after saveUsers(users).
saveUsers(storage, users) == setItem(storage, USERS_KEY, JSONStringify(users))

\* The index of the first element of users that satisfies the test, the
\* indexes of the elements that satisfy it being given; 0 for none.
FirstIndex(found) ==
    IF found = {} THEN 0 ELSE CHOOSE i \in found : \A j \in found : i <= j

\* findUserByEmail with the emails compared as they are written.
findUserByEmailExact(storage, email) ==
    LET users == getAllUsers(storage)
        index == FirstIndex({i \in 1..Len(users) : users[i].email = email})
    IN IF index = 0 THEN <<>> ELSE <<users[index]>>

\* findUserByEmail(email): the first user whose email equals the email given
\* when both are in lower case, or undefined (the empty tuple).
findUserByEmail(storage, email) ==
    LET users == getAllUsers(storage)
        index == FirstIndex({i \in 1..Len(users) :
                                toLowerCase(users[i].email) = toLowerCase(email)})
    IN IF index = 0 THEN <<>> ELSE <<users[index]>>

\* isValidEmail(email): emailRegex.test(email)
isValidEmail(email) == 5 \in RegexRun({0}, email)

\* validatePassword(password)
validatePassword(password) ==
    IF Len(password) < MIN_PASSWORD_LENGTH
    THEN [isValid |-> FALSE,
          message |-> "Password must be at least "
                         \o ToString(MIN_PASSWORD_LENGTH) \o " characters long"]
    ELSE [isValid |-> TRUE, message |-> "Password is valid"]

\* validateName(name)
validateName(name) ==
    IF Len(name) = 0 \/ Len(trim(name)) < 2
    THEN [isValid |-> FALSE, message |-> "Name must be at least 2 characters long"]
    ELSE IF Len(trim(name)) > 50
    THEN [isValid |-> FALSE, message |-> "Name must not exceed 50 characters"]
    ELSE [isValid |-> TRUE, message |-> "Name is valid"]

\* A function of the module leaves the storage as it is and returns result.
Returned(storage, result) == [storage |-> storage, result |-> result]

\* The object { success: false, message }.
Refused(message) == [success |-> FALSE, message |-> message]

\* initializeDefaultAdmin that looks only for the default admin's email.
initializeDefaultAdminIfMissing(storage, t) ==
    LET users       == getAllUsers(storage)
        adminExists == \E i \in 1..Len(users) : users[i].email = DEFAULT_ADMIN_EMAIL
    IN IF ~adminExists
       THEN saveUsers(storage, Append(users, DefaultAdmin(t)))
       ELSE storage

\* The storage after initializeDefaultAdmin() when Date.now() = t.
initializeDefaultAdmin(storage, t) ==
    LET users       == getAllUsers(storage)
        adminExists == \E i \in 1..Len(users) : users[i].email = DEFAULT_ADMIN_EMAIL
    IN IF ~adminExists /\ Len(users) = 0
       THEN saveUsers(storage, Append(users, DefaultAdmin(t)))
       ELSE storage

\* registerUser(name, email, password) when Date.now() = t: the storage
\* after the call and the object returned.
registerUser(storage, name, email, password, t) ==
    LET nameValidation     == validateName(name)
        passwordValidation == validatePassword(password)
        users              == getAllUsers(storage)
        newUser            == NewUser(trim(name), trim(toLowerCase(email)), password, t)
    IN IF ~nameValidation.isValid THEN Returned(storage, Refused(nameValidation.message))
       ELSE IF ~isValidEmail(email)
       THEN Returned(storage, Refused("Please enter a valid email address"))
       ELSE IF ~passwordValidation.isValid
       THEN Returned(storage, Refused(passwordValidation.message))
       ELSE IF findUserByEmail(storage, email) # <<>>
       THEN Returned(storage, Refused("An account with this email already exists"))
       ELSE Returned(saveUsers(storage, Append(users, newUser)),
                     [ success |-> TRUE,
                       message |-> "Registration successful! Please login to continue.",
                       user    |-> [ id      |-> newUser.id,
                                     name    |-> newUser.name,
                                     email   |-> newUser.email,
                                     isAdmin |-> newUser.isAdmin ] ])

\* loginUser that does not verify the password.
loginUserAnyPassword(storage, email, password, t) ==
    LET user == findUserByEmail(storage, email)
    IN IF Len(email) = 0 \/ Len(password) = 0
       THEN Returned(storage, Refused("Please enter both email and password"))
       ELSE IF ~isValidEmail(email)
       THEN Returned(storage, Refused("Please enter a valid email address"))
       ELSE IF user = <<>>
       THEN Returned(storage, Refused("Invalid email or password"))
       ELSE Returned(setItem(storage, SESSION_KEY, JSONStringify(Session(user[1], t))),
                     [ success |-> TRUE,
                       message |-> "Login successful!",
                       user    |-> Session(user[1], t) ])

\* loginUser(email, password) when the Date created is t.
loginUser(storage, email, password, t) ==
    LET user == findUserByEmail(storage, email)
    IN IF Len(email) = 0 \/ Len(password) = 0
       THEN Returned(storage, Refused("Please enter both email and password"))
       ELSE IF ~isValidEmail(email)
       THEN Returned(storage, Refused("Please enter a valid email address"))
       ELSE IF user = <<>>
       THEN Returned(storage, Refused("Invalid email or password"))
       ELSE IF user[1].password # password
       THEN Returned(storage, Refused("Invalid email or password"))
       ELSE Returned(setItem(storage, SESSION_KEY, JSONStringify(Session(user[1], t))),
                     [ success |-> TRUE,
                       message |-> "Login successful!",
                       user    |-> Session(user[1], t) ])

\* isLoggedIn()
isLoggedIn(storage) == getCurrentSession(storage) # <<>>

\* logoutUser that clears the whole storage.
logoutUserClear(storage) ==
    Returned(EmptyMap, [success |-> TRUE, message |-> "Logged out successfully"])

\* logoutUser()
logoutUser(storage) ==
    Returned(removeItem(storage, SESSION_KEY),
             [success |-> TRUE, message |-> "Logged out successfully"])

\* getCurrentUser(): the stored user of the session, null without a session
\* and undefined when no stored user has the session's userId (both the
\* empty tuple).
getCurrentUser(storage) ==
    LET session == getCurrentSession(storage)
        users   == getAllUsers(storage)
    IN IF session = <<>> THEN <<>>
       ELSE LET index == FirstIndex({i \in 1..Len(users) : users[i].id = session[1].userId})
            IN IF index = 0 THEN <<>> ELSE <<users[index]>>

\* isAdmin that asks for a session only.
isAdminAnyUser(storage) == getCurrentUser(storage) # <<>>

\* isAdmin(): user && user.isAdmin === true, as a boolean.
isAdmin(storage) ==
    LET user == getCurrentUser(storage)
    IN user # <<>> /\ user[1].isAdmin = TRUE

\* deleteUser that does not compare userId with the session.
deleteUserAnyone(storage, userId) ==
    LET users     == getAllUsers(storage)
        userIndex == FirstIndex({i \in 1..Len(users) : users[i].id = userId})
    IN IF ~isAdmin(storage)
       THEN Returned(storage, Refused("Unauthorized: Admin access required"))
       ELSE IF userIndex = 0 THEN Returned(storage, Refused("User not found"))
       ELSE Returned(saveUsers(storage, SubSeq(users, 1, userIndex - 1)
                                          \o SubSeq(users, userIndex + 1, Len(users))),
                     [ success |-> TRUE,
                       message |-> "User " \o users[userIndex].name \o " deleted successfully" ])

\* deleteUser(userId)
deleteUser(storage, userId) ==
    LET session   == getCurrentSession(storage)
        users     == getAllUsers(storage)
        userIndex == FirstIndex({i \in 1..Len(users) : users[i].id = userId})
    IN IF ~isAdmin(storage)
       THEN Returned(storage, Refused("Unauthorized: Admin access required"))
       ELSE IF session[1].userId = userId
       THEN Returned(storage, Refused("Cannot delete your own account"))
       ELSE IF userIndex = 0 THEN Returned(storage, Refused("User not found"))
       ELSE Returned(saveUsers(storage, SubSeq(users, 1, userIndex - 1)
                                          \o SubSeq(users, userIndex + 1, Len(users))),
                     [ success     |-> TRUE,
                       message     |-> "User " \o users[userIndex].name \o " deleted successfully",
                       deletedUser |-> [ id    |-> users[userIndex].id,
                                         name  |-> users[userIndex].name,
                                         email |-> users[userIndex].email ] ])

\* getAllUsersAdmin(): the users, or null (the empty tuple).
getAllUsersAdmin(storage) ==
    IF ~isAdmin(storage) THEN <<>> ELSE <<getAllUsers(storage)>>

\* toggleAdminStatus that does not compare userId with the session.
toggleAdminStatusOwn(storage, userId) ==
    LET users == getAllUsers(storage)
        index == FirstIndex({i \in 1..Len(users) : users[i].id = userId})
    IN IF ~isAdmin(storage)
       THEN Returned(storage, Refused("Unauthorized: Admin access required"))
       ELSE IF index = 0 THEN Returned(storage, Refused("User not found"))
       ELSE Returned(saveUsers(storage, [users EXCEPT ![index].isAdmin = ~@]),
                     [ success |-> TRUE,
                       message |-> users[index].name \o " admin privileges",
                       isAdmin |-> ~users[index].isAdmin ])

\* toggleAdminStatus(userId)
toggleAdminStatus(storage, userId) ==
    LET session == getCurrentSession(storage)
        users   == getAllUsers(storage)
        index   == FirstIndex({i \in 1..Len(users) : users[i].id = userId})
    IN IF ~isAdmin(storage)
       THEN Returned(storage, Refused("Unauthorized: Admin access required"))
       ELSE IF session[1].userId = userId
       THEN Returned(storage, Refused("Cannot modify your own admin status"))
       ELSE IF index = 0 THEN Returned(storage, Refused("User not found"))
       ELSE Returned(saveUsers(storage, [users EXCEPT ![index].isAdmin = ~@]),
                     [ success |-> TRUE,
                       message |-> users[index].name \o
                                     (IF ~users[index].isAdmin
                                      THEN " granted" ELSE " revoked") \o " admin privileges",
                       isAdmin |-> ~users[index].isAdmin ])

----------------------------------------------------------------------------
(* Settings module (src/unnamed/part_000, lines 195-352) *)

\* getSettings() returns the object SETTINGS_CONFIG.DEFAULT_SETTINGS itself:
\* without a session, and when the session's user is not stored or has no
\* preferences.
ReturnsDefaults(storage) ==
    \/ getCurrentSession(storage) = <<>>
    \/ getCurrentUser(storage) = <<>>
    \/ "preferences" \notin DOMAIN getCurrentUser(storage)[1]

\* getSettings(), defaults being the object SETTINGS_CONFIG.DEFAULT_SETTINGS.
getSettings(storage, defaults) ==
    IF ReturnsDefaults(storage) THEN defaults
    ELSE getCurrentUser(storage)[1].preferences

\* saveSettings that stores the settings given in place of the preferences.
saveSettingsReplace(storage, settings) ==
    LET session   == getCurrentSession(storage)
        users     == getAllUsers(storage)
        userIndex == IF session = <<>> THEN 0
                     ELSE FirstIndex({i \in 1..Len(users) : users[i].id = session[1].userId})
    IN IF session = <<>> \/ userIndex = 0 THEN Returned(storage, FALSE)
       ELSE Returned(saveUsers(storage, [users EXCEPT ![userIndex].preferences = settings]),
                     TRUE)

\* saveSettings(settings); merged is { ...preferences, ...settings }.
saveSettings(storage, settings) ==
    LET session   == getCurrentSession(storage)
        users     == getAllUsers(storage)
        userIndex == IF session = <<>> THEN 0
                     ELSE FirstIndex({i \in 1..Len(users) : users[i].id = session[1].userId})
        merged    == [k \in (DOMAIN users[userIndex].preferences) \cup (DOMAIN settings) |->
                        IF k \in DOMAIN settings THEN settings[k]
                        ELSE users[userIndex].preferences[k]]
    IN IF session = <<>> \/ userIndex = 0 THEN Returned(storage, FALSE)
       ELSE Returned(saveUsers(storage, [users EXCEPT ![userIndex].preferences = merged]),
                     TRUE)

\* updateSetting(key, value): the storage and the object
\* SETTINGS_CONFIG.DEFAULT_SETTINGS after the call, and the value returned.
\* currentSettings[key] = value assigns to the object getSettings() returned,
\* which is SETTINGS_CONFIG.DEFAULT_SETTINGS itself in the cases of
\* ReturnsDefaults.
updateSetting(storage, defaults, key, value) ==
    LET currentSettings == SetProperty(getSettings(storage, defaults), key, value)
        saved           == saveSettings(storage, currentSettings)
    IN [ storage  |-> saved.storage,
         defaults |-> IF ReturnsDefaults(storage) THEN currentSettings ELSE defaults,
         result   |-> saved.result ]

\* getTemperatureUnit(): settings.temperatureUnit || 'celsius'
getTemperatureUnit(storage, defaults) ==
    LET settings == getSettings(storage, defaults)
    IN IF "temperatureUnit" \in DOMAIN settings /\ settings.temperatureUnit # ""
       THEN settings.temperatureUnit ELSE "celsius"

\* isDarkModeEnabled(): settings.darkMode === true
isDarkModeEnabled(storage, defaults) ==
    LET settings == getSettings(storage, defaults)
    IN "darkMode" \in DOMAIN settings /\ settings.darkMode = TRUE

\* toggleTemperatureUnit(); the unit returned is the result.
toggleTemperatureUnit(storage, defaults) ==
    LET currentUnit == getTemperatureUnit(storage, defaults)
        newUnit     == IF currentUnit = "celsius" THEN "fahrenheit" ELSE "celsius"
        updated     == updateSetting(storage, defaults, "temperatureUnit", newUnit)
    IN [updated EXCEPT !.result = newUnit]

\* toggleDarkMode(); the mode returned is the result.
toggleDarkMode(storage, defaults) ==
    LET newMode == ~isDarkModeEnabled(storage, defaults)
        updated == updateSetting(storage, defaults, "darkMode", newMode)
    IN [updated EXCEPT !.result = newMode]

\* resetSettings(): saveSettings(SETTINGS_CONFIG.DEFAULT_SETTINGS)
resetSettings(storage, defaults) == saveSettings(storage, defaults)

----------------------------------------------------------------------------
(* The calls of the authentication and settings functions *)

\* The calls of these functions made in one behaviour.
MaxAuthOps == 2

\* The call fn(args) returning result is the last of the calls made on the
\* stored data.
CalledWith(fn, args, result) ==
    [ count |-> ops.count + 1,
      last  |-> <<[fn |-> fn, args |-> args, result |-> result]>> ]

\* The functions are called after the script has run (auth.js, line 61), that
\* is when a user is stored: initializeDefaultAdmin stores one in an empty
\* list and no function empties the list.
ScriptHasRun == getAllUsers(localStorage) # <<>>

\* The script of the module runs: initializeDefaultAdmin() is called, at
\* the instant t.
InitializeDefaultAdmin(t) ==
    /\ ops.count < MaxAuthOps
    /\ t >= now
    /\ now' = IF getAllUsers(localStorage) = <<>> THEN t ELSE now
    /\ localStorage' = initializeDefaultAdmin(localStorage, t)
    /\ ops' = CalledWith("initializeDefaultAdmin", <<>>, <<>>)
    /\ UNCHANGED <<weatherCache, calls, shown, ticks, DEFAULT_SETTINGS>>

\* registerUser(name, email, password) is called; Date.now(), which it reads
\* when it creates the user, gives t.
RegisterUser(name, email, password, t) ==
    /\ ScriptHasRun
    /\ ops.count < MaxAuthOps
    /\ t >= now
    /\ LET done == registerUser(localStorage, name, email, password, t)
       IN /\ localStorage' = done.storage
          /\ now' = IF done.result.success THEN t ELSE now
          /\ ops' = CalledWith("registerUser", <<name, email, password>>, done.result)
    /\ UNCHANGED <<weatherCache, calls, shown, ticks, DEFAULT_SETTINGS>>

\* loginUser(email, password) is called; the Date it creates for the session
\* is t.
LoginUser(email, password, t) ==
    /\ ScriptHasRun
    /\ ops.count < MaxAuthOps
    /\ t >= now
    /\ LET done == loginUser(localStorage, email, password, t)
       IN /\ localStorage' = done.storage
          /\ now' = IF done.result.success THEN t ELSE now
          /\ ops' = CalledWith("loginUser", <<email, password>>, done.result)
    /\ UNCHANGED <<weatherCache, calls, shown, ticks, DEFAULT_SETTINGS>>

\* logoutUser() is called.
LogoutUser ==
    /\ ScriptHasRun
    /\ ops.count < MaxAuthOps
    /\ LET done == logoutUser(localStorage)
       IN /\ localStorage' = done.storage
          /\ ops' = CalledWith("logoutUser", <<>>, done.result)
    /\ UNCHANGED <<weatherCache, now, calls, shown, ticks, DEFAULT_SETTINGS>>

\* deleteUser(userId) is called.
DeleteUser(userId) ==
    /\ ScriptHasRun
    /\ ops.count < MaxAuthOps
    /\ LET done == deleteUser(localStorage, userId)
       IN /\ localStorage' = done.storage
          /\ ops' = CalledWith("deleteUser", <<userId>>, done.result)
    /\ UNCHANGED <<weatherCache, now, calls, shown, ticks, DEFAULT_SETTINGS>>

\* getAllUsersAdmin() is called.
GetAllUsersAdmin ==
    /\ ScriptHasRun
    /\ ops.count < MaxAuthOps
    /\ ops' = CalledWith("getAllUsersAdmin", <<>>, getAllUsersAdmin(localStorage))
    /\ UNCHANGED <<weatherCache, now, calls, shown, ticks, localStorage, DEFAULT_SETTINGS>>

\* toggleAdminStatus(userId) is called.
ToggleAdminStatus(userId) ==
    /\ ScriptHasRun
    /\ ops.count < MaxAuthOps
    /\ LET done == toggleAdminStatus(localStorage, userId)
       IN /\ localStorage' = done.storage
          /\ ops' = CalledWith("toggleAdminStatus", <<userId>>, done.result)
    /\ UNCHANGED <<weatherCache, now, calls, shown, ticks, DEFAULT_SETTINGS>>

\* saveSettings(settings) is called.
SaveSettings(settings) ==
    /\ ScriptHasRun
    /\ ops.count < MaxAuthOps
    /\ LET done == saveSettings(localStorage, settings)
       IN /\ localStorage' = done.storage
          /\ ops' = CalledWith("saveSettings", <<settings>>, done.result)
    /\ UNCHANGED <<weatherCache, now, calls, shown, ticks, DEFAULT_SETTINGS>>

\* updateSetting(key, value) is called.
UpdateSetting(key, value) ==
    /\ ScriptHasRun
    /\ ops.count < MaxAuthOps
    /\ LET done == updateSetting(localStorage, DEFAULT_SETTINGS, key, value)
       IN /\ localStorage' = done.storage
          /\ DEFAULT_SETTINGS' = done.defaults
          /\ ops' = CalledWith("updateSetting", <<key, value>>, done.result)
    /\ UNCHANGED <<weatherCache, now, calls, shown, ticks>>

\* toggleTemperatureUnit() is called.
ToggleTemperatureUnit ==
    /\ ScriptHasRun
    /\ ops.count < MaxAuthOps
    /\ LET done == toggleTemperatureUnit(localStorage, DEFAULT_SETTINGS)
       IN /\ localStorage' = done.storage
          /\ DEFAULT_SETTINGS' = done.defaults
          /\ ops' = CalledWith("toggleTemperatureUnit", <<>>, done.result)
    /\ UNCHANGED <<weatherCache, now, calls, shown, ticks>>

\* toggleDarkMode() is called.
ToggleDarkMode ==
    /\ ScriptHasRun
    /\ ops.count < MaxAuthOps
    /\ LET done == toggleDarkMode(localStorage, DEFAULT_SETTINGS)
       IN /\ localStorage' = done.storage
          /\ DEFAULT_SETTINGS' = done.defaults
          /\ ops' = CalledWith("toggleDarkMode", <<>>, done.result)
    /\ UNCHANGED <<weatherCache, now, calls, shown, ticks>>

\* resetSettings() is called.
ResetSettings ==
    /\ ScriptHasRun
    /\ ops.count < MaxAuthOps
    /\ LET done == resetSettings(localStorage, DEFAULT_SETTINGS)
       IN /\ localStorage' = done.storage
          /\ ops' = CalledWith("resetSettings", <<>>, done.result)
    /\ UNCHANGED <<weatherCache, now, calls, shown, ticks, DEFAULT_SETTINGS>>

\* The arguments given to registerUser: a new user; a name with spaces
\* around it, the email of Asha in other letters and a password of 6
\* characters; a name too short once trimmed; a name of 51 characters; emails the
\* regular expression rejects; the email of the default admin in other
\* letters; a password too short.
RegisterRequests ==
    { <<"Ravi", "ravi@mail.com", "secret2">>,
      <<" Bo ", "Asha@Mail.com", "123456">>,
      <<"A ", "ravi@mail.com", "secret2">>,
      <<"Abcdefghij Abcdefghij Abcdefghij Abcdefghij Abcdefg", "ravi@mail.com", "secret2">>,
      <<"Ravi", "ravi@mail", "secret2">>,
      <<"Ravi", "ravi @mail.com", "secret2">>,
      <<"Ravi", "ravi@@mail.com", "secret2">>,
      <<"Ravi", "ADMIN@weather.com", "secret2">>,
      <<"Ravi", "ravi@mail.com", "12345">> }

\* The arguments given to loginUser: the default admin's; Asha's with the
\* email in other letters; Asha's email with another password and with the
\* password in other letters; Ravi's; an empty email; an empty password; emails
\* the regular expression rejects.
LoginRequests ==
    { <<"admin@weather.com", "admin@123">>,
      <<"Asha@Mail.com", "secret1">>,
      <<"asha@mail.com", "admin@123">>,
      <<"asha@mail.com", "Secret1">>,
      <<"ravi@mail.com", "secret2">>,
      <<"", "secret1">>,
      <<"asha@mail.com", "">>,
      <<"asha@mail", "secret1">>,
      <<" asha@mail.com", "secret1">> }

\* The ids given to deleteUser and toggleAdminStatus: those of the stored
\* users and one that no user has.
AuthIds(storage) ==
    {getAllUsers(storage)[i].id : i \in 1..Len(getAllUsers(storage))} \cup {"0"}

\* The objects given to saveSettings.
AuthSettings ==
    { [temperatureUnit |-> "fahrenheit"],
      [defaultCity |-> "Paris", darkMode |-> FALSE, language |-> "en"] }

\* The storages earlier pages have left and the object
\* SETTINGS_CONFIG.DEFAULT_SETTINGS of the page, each the result of calls of
\* the functions from the empty storage: the default admin created at the
\* instant 1, Asha registered at 2, the admin logged in at 3, Asha made an
\* admin, Asha logged in at 4, the default admin deleted by her, a search
\* of hers at 5, her preferences changed.  The object is as the script
\* writes it, the page being new; in the last case toggleDarkMode() has been
\* called on the page since, nobody being logged in.
EarlierPages ==
    LET adminCreated      == initializeDefaultAdmin(EmptyMap, 1)
        ashaRegistered    ==
            registerUser(adminCreated, "Asha", "asha@mail.com", "secret1", 2).storage
        adminLoggedIn     ==
            loginUser(ashaRegistered, "admin@weather.com", "admin@123", 3).storage
        ashaMadeAdmin     == toggleAdminStatus(adminLoggedIn, "2").storage
        ashaLoggedIn      == loginUser(ashaRegistered, "asha@mail.com", "secret1", 4).storage
        ashaAdminLoggedIn == loginUser(ashaMadeAdmin, "asha@mail.com", "secret1", 4).storage
        adminDeleted      == deleteUser(ashaAdminLoggedIn, "admin-1").storage
        ashaSearched      == addToHistory(ashaLoggedIn, "Paris", <<>>, 5)
        ashaConfigured    ==
            saveSettings(ashaSearched,
                         [temperatureUnit |-> "fahrenheit", language |-> "en"]).storage
        toggled           == toggleDarkMode(ashaRegistered, DefaultSettingsLiteral)
    IN { [storage |-> storage, defaults |-> DefaultSettingsLiteral] :
            storage \in { EmptyMap, adminCreated, ashaRegistered, adminLoggedIn,
                          ashaMadeAdmin, ashaLoggedIn, ashaAdminLoggedIn, adminDeleted,
                          ashaSearched, ashaConfigured } }
       \cup { [storage |-> toggled.storage, defaults |-> toggled.defaults] }

\* A page is open on a storage earlier pages have left.
InitAuth ==
    /\ weatherCache = [current |-> EmptyMap, forecast |-> EmptyMap]
    /\ now = 6
    /\ calls = <<>>
    /\ shown = <<>>
    /\ ticks = 0
    /\ ops = NoOps
    /\ \E page \in EarlierPages :
          /\ localStorage = page.storage
          /\ DEFAULT_SETTINGS = page.defaults

NextAuth ==
    \/ \E t \in {now + 1} : InitializeDefaultAdmin(t)
    \/ \E request \in RegisterRequests, t \in {now, now + 1} :
          RegisterUser(request[1], request[2], request[3], t)
    \/ \E request \in LoginRequests, t \in {now + 1} : LoginUser(request[1], request[2], t)
    \/ LogoutUser
    \/ \E userId \in AuthIds(localStorage) : DeleteUser(userId)
    \/ GetAllUsersAdmin
    \/ \E userId \in AuthIds(localStorage) : ToggleAdminStatus(userId)
    \/ \E settings \in AuthSettings : SaveSettings(settings)
    \/ UpdateSetting("enableAlerts", FALSE)
    \/ ToggleTemperatureUnit
    \/ ToggleDarkMode
    \/ ResetSettings

SpecAuth == InitAuth /\ [][NextAuth]_vars

----------------------------------------------------------------------------
(* The accounts and their search histories together *)

\* A page is open on a storage earlier pages have left, each the result of
\* calls of the functions from the empty storage: the default admin created
\* at the instant 1, Asha registered at 2 and logged in at 4, a search of
\* hers at 5, her logout, the login of the admin at 6, a search of the
\* admin's at 7.
InitAccount ==
    /\ weatherCache = [current |-> EmptyMap, forecast |-> EmptyMap]
    /\ now = 7
    /\ calls = <<>>
    /\ shown = <<>>
    /\ ticks = 0
    /\ ops = NoOps
    /\ DEFAULT_SETTINGS = DefaultSettingsLiteral
    /\ LET adminCreated   == initializeDefaultAdmin(EmptyMap, 1)
           ashaRegistered ==
               registerUser(adminCreated, "Asha", "asha@mail.com", "secret1", 2).storage
           ashaLoggedIn   ==
               loginUser(ashaRegistered, "asha@mail.com", "secret1", 4).storage
           ashaSearched   == addToHistory(ashaLoggedIn, "Paris", <<>>, 5)
           ashaLoggedOut  == logoutUser(ashaSearched).storage
           adminLoggedIn  ==
               loginUser(ashaLoggedOut, "admin@weather.com", "admin@123", 6).storage
           adminSearched  == addToHistory(adminLoggedIn, FillerCity(1), <<>>, 7)
       IN localStorage \in { ashaRegistered, ashaSearched, ashaLoggedOut,
                             adminLoggedIn, adminSearched }

\* The functions of the authentication and settings modules and those of
\* the search history are called in any order.
NextAccount ==
    \/ NextAuth
    \/ \E city \in {"Paris", FillerCity(1)} : AddToHistory(city, <<>>, now + 1)
    \/ ClearSearchHistory
    \/ \E index \in {0, 1} : RemoveHistoryEntry(index)

SpecAccount == InitAccount /\ [][NextAccount]_vars

----------------------------------------------------------------------------
(* Vocabulary of the properties *)

\* An entry is stored under exactly the string city in the map of kind and
\* its age is strictly below 10 minutes.
StoredFresh(kind, city) ==
    /\ city \in DOMAIN weatherCache[kind]
    /\ now - weatherCache[kind][city].timestamp < 10 * 60 * 1000

\* This step begins a call.
Begins == Len(calls') = Len(calls) + 1

\* The call a step begins.
Begun == calls'[Len(calls')]

\* This step ends call i with a return after a network request.
Returns(i) == calls[i].pc = "json" /\ calls'[i].pc = "returned"

\* This step ends call i with an exception.
Throws(i) == calls[i].pc \in {"fetch", "json"} /\ calls'[i].pc = "threw"

Pending(i) == calls[i].pc \in {"fetch", "json"}

Missed(i) == calls[i].reqs = 1

\* Call j began when call i had already settled.
BeganAfter(j, i) == i \in calls[j].after

\* Calls i and j were in progress at the same time.
Overlapped(i, j) == i # j /\ ~BeganAfter(i, j) /\ ~BeganAfter(j, i)

----------------------------------------------------------------------------
(* C1 *)

\* C1: a call of fetchCurrentWeather or fetchForecastWeather for a city whose
\* entry in the corresponding map is younger than 10 minutes returns the data
\* of that entry, makes no network request and leaves the cache as it is.
C1_FreshEntryIsServed ==
    [][ (Begins /\ StoredFresh(Begun.kind, Begun.city))
          => /\ Begun.pc = "returned"
             /\ Begun.value = <<weatherCache[Begun.kind][Begun.city].data>>
             /\ Begun.reqs = 0
             /\ weatherCache' = weatherCache ]_vars

\* The forecast function has served an entry some minutes old.
C1_Witness ==
    \E kind \in {"forecast"} :
        \E i \in 1..Len(calls) :
            /\ calls[i].kind = kind
            /\ calls[i].pc = "returned" /\ calls[i].reqs = 0
            /\ StoredFresh(kind, calls[i].city)
            /\ now > weatherCache[kind][calls[i].city].timestamp
            /\ calls[i].value = <<weatherCache[kind][calls[i].city].data>>

----------------------------------------------------------------------------
(* C2 *)

\* C2, as stated: a call of fetchCurrentWeather that began with an entry
\* older than 10 minutes ends having made exactly one network request and
\* with the timestamp of the entry refreshed, that is, set to the time at
\* which the call ends.
C2_StaleCallAlwaysRefreshes ==
    [][ \A i \in 1..Len(calls) :
          (calls[i].kind = "current" /\ calls[i].stale /\ (Returns(i) \/ Throws(i)))
              => /\ calls'[i].reqs = 1
                 /\ weatherCache'.current[calls[i].city].timestamp = now ]_vars

\* C2, amended: a call of fetchCurrentWeather that begins with an entry older
\* than 10 minutes makes one network request, no later step of the call makes
\* another, and when the call returns the entry of its city carries the data
\* returned and the time of the return; when it throws the entry is unchanged.
C2_StaleCallRefreshesOnSuccess ==
    [][ /\ (Begins /\ Begun.kind = "current" /\ StoredStale("current", Begun.city))
            => (Begun.pc = "fetch" /\ Begun.reqs = 1 /\ Begun.stale)
        /\ \A i \in 1..Len(calls) :
              /\ calls'[i].reqs = calls[i].reqs
              /\ (calls[i].kind = "current" /\ calls[i].stale /\ Returns(i))
                    => weatherCache'.current[calls[i].city] =
                          [data |-> calls'[i].value[1], timestamp |-> now]
              /\ (calls[i].kind = "current" /\ calls[i].stale /\ Throws(i))
                    => weatherCache'.current[calls[i].city] =
                          weatherCache.current[calls[i].city] ]_vars

\* A call that began with a stale entry has returned and the entry is fresh.
C2_Witness ==
    \E i \in 1..Len(calls) :
        /\ calls[i].kind = "current" /\ calls[i].stale
        /\ calls[i].pc = "returned" /\ calls[i].reqs = 1
        /\ StoredFresh("current", calls[i].city)
        /\ weatherCache.current[calls[i].city].timestamp > 10 * 60 * 1000

----------------------------------------------------------------------------
(* C3 *)

\* A response status that is not 2xx.
Failure(status) == status # 0 /\ ~(status \in 200..299)

\* C3: a call that got a non-2xx response has thrown; a call that throws
\* (non-2xx response, network error, parse error) has made one network
\* request, returns no data, and its step leaves both cache maps as they are;
\* so do the steps that begin a call or deliver its response, so that the
\* maps never differ from what they were when a failing call began except by
\* the writes of other calls.
C3_FailureThrowsAndKeepsCache ==
    /\ [](\A i \in 1..Len(calls) :
            /\ Failure(calls[i].status) => calls[i].pc = "threw"
            /\ calls[i].pc = "threw"
                  => (calls[i].reqs = 1 /\ calls[i].value = <<>> /\ calls[i].error # ""))
    /\ [][ /\ \A i \in 1..Len(calls) :
                /\ Throws(i) => weatherCache' = weatherCache
                /\ calls'[i].reqs = calls[i].reqs
                /\ calls[i].pc = "threw" => calls'[i] = calls[i]
           /\ Begins => weatherCache' = weatherCache ]_vars

\* A call that began with a stale entry for its city has thrown and the
\* entry is still in the map.
C3_Witness ==
    \E i \in 1..Len(calls) :
        /\ calls[i].pc = "threw"
        /\ calls[i].city \in DOMAIN weatherCache[calls[i].kind]
        /\ calls[i].stale

----------------------------------------------------------------------------
(* C4 *)

\* The class of failure a thrown message stands for.
FailureClass(message) ==
    IF message \in {"City not found. Please check the spelling and try again.",
                    "City not found for forecast data."}
    THEN "city not found"
    ELSE IF message = "API key error. Please contact support."
    THEN "credential error"
    ELSE IF message \in {"Failed to fetch weather data. Please try again.",
                         "Failed to fetch forecast data."}
    THEN "fetch failed"
    ELSE "other"

\* C4: in both fetch functions a non-2xx response gives the failure of its
\* status: 404 city not found, 401 credential error, any other fetch failed.
C4_StatusGivesTypedFailure ==
    \A i \in 1..Len(calls) :
        Failure(calls[i].status)
            => FailureClass(calls[i].error) =
                  IF calls[i].status = 404 THEN "city not found"
                  ELSE IF calls[i].status = 401 THEN "credential error"
                  ELSE "fetch failed"

----------------------------------------------------------------------------
(* C5 *)

\* C5: a call of fetchCurrentWeather that begins with no fresh entry makes a
\* network request whatever other calls are in flight; the step in which
\* such a call returns leaves its data in the entry of its city, and the data
\* of an entry changes in no other step: the entry holds the data of the call
\* for its city that returned last.
C5_NoCoalescingLastWriteWins ==
    [][ /\ (Begins /\ Begun.kind = "current" /\ ~StoredFresh("current", Begun.city))
              => (Begun.pc = "fetch" /\ Begun.reqs = 1)
        /\ \A i \in 1..Len(calls) :
              (calls[i].kind = "current" /\ Returns(i))
                  => /\ calls[i].city \in DOMAIN weatherCache'.current
                     /\ weatherCache'.current[calls[i].city].data = calls'[i].value[1]
        /\ \A city \in DOMAIN weatherCache.current :
              (city \notin DOMAIN weatherCache'.current
                 \/ weatherCache'.current[city].data # weatherCache.current[city].data)
                  => \E i \in 1..Len(calls) :
                        calls[i].kind = "current" /\ calls[i].city = city /\ Returns(i) ]_vars

\* Two overlapping calls for one city both made a request and returned
\* different data; the data cached is that of the call begun first, which
\* therefore returned last.
C5_Witness ==
    \E i, j \in 1..Len(calls) :
        /\ i < j /\ Overlapped(i, j)
        /\ calls[i].kind = "current" /\ calls[j].kind = "current"
        /\ calls[i].city = calls[j].city
        /\ Missed(i) /\ Missed(j)
        /\ calls[i].pc = "returned" /\ calls[j].pc = "returned"
        /\ calls[i].value # calls[j].value
        /\ weatherCache.current[calls[i].city].data = calls[i].value[1]

----------------------------------------------------------------------------
(* C6 *)

\* C6: while the request of a call stays unanswered, every other call can
\* go on: a new call for any city can begin (as long as the model admits
\* another call), a response can reach any other waiting call, and a body
\* can be delivered to any call awaiting one; and the call that gets its
\* body returns it and stores it with the current time.
C6_HungRequestBlocksOnlyItself ==
    /\ [](\A i \in 1..Len(calls) :
            calls[i].pc = "fetch"
              => /\ Len(calls) < MaxCalls
                     => \A kind \in Kinds, city \in Cities : ENABLED StartCall(kind, city)
                 /\ \A j \in 1..Len(calls) :
                      /\ (j # i /\ calls[j].pc = "fetch")
                            => \A status \in Statuses : ENABLED FetchResponds(j, status)
                      /\ (j # i /\ calls[j].pc = "json")
                            => \A data \in Payloads(calls[j].kind) :
                                  ENABLED JsonResolves(j, data))
    /\ [][ \A j \in 1..Len(calls) :
             Returns(j) => weatherCache'[calls[j].kind][calls[j].city] =
                              [data |-> calls'[j].value[1], timestamp |-> now] ]_vars

\* A call for the same city, begun after one that is still waiting for its
\* response, has made its own request, returned, and its data is cached.
C6_Witness ==
    \E i, j \in 1..Len(calls) :
        /\ i < j
        /\ calls[i].pc = "fetch"
        /\ calls[i].city = calls[j].city /\ calls[i].kind = calls[j].kind
        /\ Missed(j) /\ calls[j].pc = "returned"
        /\ weatherCache[calls[j].kind][calls[j].city].data = calls[j].value[1]

----------------------------------------------------------------------------
(* C7 *)

\* C7: a key of a cache map stays in it, and the entry under a key changes
\* only in the step in which a call for that city and that map returns after
\* its network request.
C7_EntriesChangeOnlyBySuccess ==
    [][ \A kind \in Kinds :
          \A city \in DOMAIN weatherCache[kind] :
              /\ city \in DOMAIN weatherCache'[kind]
              /\ weatherCache'[kind][city] # weatherCache[kind][city]
                    => \E i \in 1..Len(calls) :
                          /\ calls[i].kind = kind /\ calls[i].city = city
                          /\ Returns(i) ]_vars

\* An entry older than 10 minutes is stored beside an entry of the same map
\* written when the first was already that old.
C7_Witness ==
    \E kind \in Kinds :
        \E c, d \in DOMAIN weatherCache[kind] :
            /\ StoredStale(kind, c)
            /\ weatherCache[kind][d].timestamp - weatherCache[kind][c].timestamp
                  > 10 * 60 * 1000

----------------------------------------------------------------------------
(* C8 *)

OtherKind(kind) == IF kind = "current" THEN "forecast" ELSE "current"

\* Call i takes this step: it begins or its record changes.
Acts(i) == i > Len(calls) \/ calls'[i] # calls[i]

\* C8: no step of a call of one function changes the map of the other
\* function, and a call that begins with no fresh entry for its city in its
\* own map makes a network request, whatever the other map holds.
C8_MapsAreIndependent ==
    [][ /\ \A i \in 1..Len(calls') :
              Acts(i) => weatherCache'[OtherKind(calls'[i].kind)] =
                            weatherCache[OtherKind(calls'[i].kind)]
        /\ (Begins /\ ~StoredFresh(Begun.kind, Begun.city))
              => (Begun.pc = "fetch" /\ Begun.reqs = 1) ]_vars

\* A call began when the other map already held an entry for its city that
\* is fresh to this moment, made its own request and returned; the entry of
\* the other map is as the earlier call stored it.
C8_Witness ==
    \E i, j \in 1..Len(calls) :
        /\ calls[i].kind = OtherKind(calls[j].kind)
        /\ calls[i].city = calls[j].city
        /\ calls[i].pc = "returned" /\ Missed(i)
        /\ BeganAfter(j, i)
        /\ now - 1 < 10 * 60 * 1000
        /\ StoredFresh(calls[i].kind, calls[i].city)
        /\ Missed(j) /\ calls[j].pc = "returned"
        /\ weatherCache[calls[i].kind][calls[i].city].data = calls[i].value[1]

----------------------------------------------------------------------------
(* C9 *)

\* C9: the key of an entry is the city string itself.  A call that begins
\* with no fresh entry under exactly its string makes a network request,
\* even when a fresh entry is stored under a spelling that differs in letter
\* case; and a call that returns stores its data under exactly its string and
\* leaves every other key as it is.
C9_KeysAreCaseSensitive ==
    [][ /\ (Begins /\ ~StoredFresh(Begun.kind, Begun.city))
              => (Begun.pc = "fetch" /\ Begun.reqs = 1)
        /\ \A i \in 1..Len(calls) :
              Returns(i) =>
                LET kind == calls[i].kind
                    city == calls[i].city
                IN /\ city \in DOMAIN weatherCache'[kind]
                   /\ weatherCache'[kind][city] =
                          [data |-> calls'[i].value[1], timestamp |-> now]
                   /\ DOMAIN weatherCache'[kind] = DOMAIN weatherCache[kind] \cup {city}
                   /\ \A other \in DOMAIN weatherCache[kind] :
                          other # city
                             => weatherCache'[kind][other] = weatherCache[kind][other] ]_vars

\* With a fresh entry under "Paris", a later call for "paris" made its own
\* request and stored different data under "paris"; the entry under "Paris"
\* is as the first call stored it.
C9_Witness ==
    \E i, j \in 1..Len(calls) :
        /\ calls[i].city = "Paris" /\ calls[j].city = "paris"
        /\ calls[i].kind = calls[j].kind
        /\ calls[i].pc = "returned" /\ Missed(i)
        /\ BeganAfter(j, i)
        /\ now - 1 < 10 * 60 * 1000
        /\ Missed(j) /\ calls[j].pc = "returned"
        /\ calls[i].value # calls[j].value
        /\ weatherCache[calls[i].kind]["Paris"].data = calls[i].value[1]
        /\ weatherCache[calls[i].kind]["paris"].data = calls[j].value[1]

----------------------------------------------------------------------------
(* C10 *)

\* C10: no formatting call changes the cached data, and two formatting calls
\* of the same function for the same city and unit give the same result,
\* whatever calls in other units come between them.
C10_FormattingKeepsRawData ==
    /\ [](\A a, b \in 1..Len(shown) :
            (shown[a].fn = shown[b].fn /\ shown[a].city = shown[b].city
               /\ shown[a].unit = shown[b].unit)
                => shown[a].out = shown[b].out)
    /\ [][ weatherCache' = weatherCache ]_vars

\* A snapshot was formatted in celsius, then in fahrenheit with another
\* result, then in celsius again with the first result.
C10_Witness ==
    /\ Len(shown) = 3
    /\ shown[1].fn = shown[2].fn /\ shown[2].fn = shown[3].fn
    /\ shown[1].city = shown[2].city /\ shown[2].city = shown[3].city
    /\ shown[1].unit = "celsius" /\ shown[2].unit = "fahrenheit"
    /\ shown[3].unit = "celsius"
    /\ shown[1].out # shown[2].out
    /\ shown[3].out = shown[1].out

----------------------------------------------------------------------------
(* C11 *)

\* The calls of fn that have run, as records of their arguments and result.
Results(fn) ==
    { [args |-> shown[i].args, out |-> shown[i].out[1]] :
        i \in {j \in 1..Len(shown) : shown[j].fn = fn /\ shown[j].out # <<>>} }

\* A number of whole degrees, and a number of tenths of a degree, in the
\* fiftieths in which convertTemperature gives its result.
Degrees(n) == 50 * n

Tenths(n) == 5 * n

\* C11: convertTemperature(x, 'celsius') is x; convertTemperature(x,
\* 'fahrenheit') is the value F with 5 F = 9 x + 160, that is x * 9/5 + 32;
\* 0 degrees gives 32 and 100 degrees gives 212.
C11_ConversionFormula ==
    \A r \in Results("convertTemperature") :
        LET x == Tenths(r.args[1])
        IN /\ r.args[2] = "celsius" => r.out = x
           /\ r.args[2] = "fahrenheit" => 5 * r.out = 9 * x + Degrees(160)
           /\ (r.args[2] = "fahrenheit" /\ x = Degrees(0)) => r.out = Degrees(32)
           /\ (r.args[2] = "fahrenheit" /\ x = Degrees(100)) => r.out = Degrees(212)

\* 100 degrees Celsius was converted to 212 degrees Fahrenheit.
C11_Witness ==
    \E r \in Results("convertTemperature") :
        r.args = <<1000, "fahrenheit">> /\ r.out = Degrees(212)

----------------------------------------------------------------------------
(* C12 *)

\* An alert of the given type and severity is in the array.
Has(alerts, type, severity) ==
    \E i \in 1..Len(alerts) : alerts[i].type = type /\ alerts[i].severity = severity

\* The types and severities of an array of alerts, in its order.
Kind(alerts) == [i \in 1..Len(alerts) |-> <<alerts[i].type, alerts[i].severity>>]

\* The rows of the table of alerts.
AlertTable ==
    { <<"heat", "high">>, <<"heat", "medium">>, <<"cold", "medium">>,
      <<"wind", "high">>, <<"wind", "medium">>, <<"rain", "medium">>,
      <<"storm", "high">>, <<"visibility", "medium">>, <<"humidity", "low">> }

\* C12: generateWeatherAlerts returns an alert of a row of the table exactly
\* when the condition of the row holds, the comparisons being strict, each
\* alert once and no other alert; the two snapshots of the examples give
\* heat/high alone and wind/high, storm/high, visibility/medium, humidity/low.
\* Wind speeds are in tenths of m/s.
C12_AlertsFollowTable ==
    \A r \in Results("generateWeatherAlerts") :
        LET w == r.args[1]
            a == r.out
        IN /\ Has(a, "heat", "high") <=> w.temperature > 35
           /\ Has(a, "heat", "medium") <=> (30 < w.temperature /\ w.temperature <= 35)
           /\ Has(a, "cold", "medium") <=> w.temperature < 10
           /\ Has(a, "wind", "high") <=> w.windSpeed > 150
           /\ Has(a, "wind", "medium") <=> (100 < w.windSpeed /\ w.windSpeed <= 150)
           /\ Has(a, "rain", "medium") <=> w.main \in {"Rain", "Drizzle"}
           /\ Has(a, "storm", "high") <=> w.main = "Thunderstorm"
           /\ Has(a, "visibility", "medium") <=> w.visibility < 2
           /\ Has(a, "humidity", "low") <=> w.humidity > 85
           /\ \A i \in 1..Len(a) : Kind(a)[i] \in AlertTable
           /\ \A i, j \in 1..Len(a) : Kind(a)[i] = Kind(a)[j] => i = j
           /\ w = Snapshot(36, 50, "Clear", 10, 50) => Kind(a) = << <<"heat", "high">> >>
           /\ w = Snapshot(20, 200, "Thunderstorm", 1, 90)
                 => Kind(a) = << <<"wind", "high">>, <<"storm", "high">>,
                                 <<"visibility", "medium">>, <<"humidity", "low">> >>

\* The snapshot of the second example has got its four alerts.
C12_Witness ==
    \E r \in Results("generateWeatherAlerts") :
        /\ r.args[1] = Snapshot(20, 200, "Thunderstorm", 1, 90)
        /\ Len(r.out) = 4

----------------------------------------------------------------------------
(* C13 *)

\* The fixed order of the alert types.
AlertOrder == <<"heat", "cold", "wind", "rain", "storm", "visibility", "humidity">>

\* The place of a type in that order (0 for a type that is not in it).
Place(type) ==
    IF \E k \in 1..Len(AlertOrder) : AlertOrder[k] = type
    THEN CHOOSE k \in 1..Len(AlertOrder) : AlertOrder[k] = type
    ELSE 0

\* C13: the types of the alerts generateWeatherAlerts returns are types of
\* the order heat, cold, wind, rain, storm, visibility, humidity and follow
\* one another in that order, none of them twice.
C13_AlertsInFixedOrder ==
    \A r \in Results("generateWeatherAlerts") :
        /\ \A i \in 1..Len(r.out) : Place(r.out[i].type) > 0
        /\ \A i, j \in 1..Len(r.out) :
              i < j => Place(r.out[i].type) < Place(r.out[j].type)

\* An array of four alerts with the storm alert between two others.
C13_Witness ==
    \E r \in Results("generateWeatherAlerts") :
        /\ Len(r.out) = 4
        /\ r.out[1].type = "wind" /\ r.out[2].type = "storm"
        /\ r.out[3].type = "visibility" /\ r.out[4].type = "humidity"

----------------------------------------------------------------------------
(* C14 *)

\* The raw body was formatted and the object returned was passed to
\* generateWeatherAlerts, which has run.
Displayed ==
    /\ Len(shown) = 2
    /\ shown[1].fn = "formatWeatherData" /\ shown[1].out # <<>>
    /\ shown[2].fn = "generateWeatherAlerts" /\ shown[2].out # <<>>
    /\ shown[2].args = <<shown[1].out[1]>>

\* n whole degrees are the rounding of v / k fiftieths of a degree (k > 0),
\* halves going upwards.
IsRounding(n, v, k) == k * (Degrees(n) - 25) <= v /\ v < k * (Degrees(n) + 25)

\* C14: the temperature tests of the alerts are made on the display
\* temperature, which is the Celsius temperature of the body converted to the
\* unit (F with 5 F = 9 C + 160 for fahrenheit) and rounded; a body of 32
\* degrees Celsius gets heat/medium in celsius and heat/high in fahrenheit.
C14_ThresholdsOnDisplayTemperature ==
    Displayed =>
        LET celsius == Tenths(shown[1].args[1].main.temp)
            unit    == shown[1].args[2]
            display == shown[1].out[1].temperature
            alerts  == shown[2].out[1]
        IN /\ unit = "celsius" => IsRounding(display, celsius, 1)
           /\ unit = "fahrenheit" => IsRounding(display, 9 * celsius + Degrees(160), 5)
           /\ Has(alerts, "heat", "high") <=> display > 35
           /\ Has(alerts, "heat", "medium") <=> (30 < display /\ display <= 35)
           /\ Has(alerts, "cold", "medium") <=> display < 10
           /\ celsius = Degrees(32) =>
                 /\ unit = "celsius" =>
                       (Has(alerts, "heat", "medium") /\ ~Has(alerts, "heat", "high"))
                 /\ unit = "fahrenheit" =>
                       (Has(alerts, "heat", "high") /\ ~Has(alerts, "heat", "medium"))

\* A body of 32 degrees Celsius formatted in fahrenheit has got heat/high.
C14_Witness ==
    /\ Displayed
    /\ shown[1].args[1].main.temp = 320
    /\ shown[1].args[2] = "fahrenheit"
    /\ Has(shown[2].out[1], "heat", "high")

----------------------------------------------------------------------------
(* C15 *)

\* A list of 40 items, each 3 hours after the one before: 5 days.
IsFiveDayInput(list) ==
    /\ Len(list) = 40
    /\ \A i \in 1..(Len(list) - 1) : list[i + 1].dt - list[i].dt = 3 * 3600

\* C15: processDailyForecast of 40 items at 3-hour intervals returns 5
\* entries, each with minTemp <= maxTemp.
C15_FiveDaysGiveFiveEntries ==
    \A r \in Results("processDailyForecast") :
        IsFiveDayInput(r.args[1].list)
            => /\ Len(r.out) = 5
               /\ \A k \in 1..Len(r.out) : r.out[k].minTemp <= r.out[k].maxTemp

\* A 5-day list that begins within a day, and so touches 6 dates, has given
\* 5 entries; one of them has different minimum and maximum.
C15_Witness ==
    \E r \in Results("processDailyForecast") :
        /\ IsFiveDayInput(r.args[1].list)
        /\ r.args[1].list[1].dt % 86400 # 0
        /\ Len(r.out) = 5
        /\ \E k \in 1..Len(r.out) : r.out[k].minTemp < r.out[k].maxTemp

----------------------------------------------------------------------------
(* C16 *)

\* The calendar date (UTC) of the i-th item of a list, as a number of days.
DateOf(list, i) == list[i].dt \div (24 * 3600)

\* The items of a list that fall on a date.
ItemsOn(list, date) == {i \in 1..Len(list) : DateOf(list, i) = date}

\* The dates of a list.
DatesOf(list) == {DateOf(list, i) : i \in 1..Len(list)}

\* The place at which a date of the list first appears.
FirstOn(list, date) ==
    CHOOSE i \in ItemsOn(list, date) : \A j \in ItemsOn(list, date) : i <= j

\* n is the display value, in the unit, of a Celsius temperature in tenths.
IsDisplayOf(n, celsius, unit) ==
    IF unit = "fahrenheit"
    THEN IsRounding(n, 9 * Tenths(celsius) + Degrees(160), 5)
    ELSE IsRounding(n, Tenths(celsius), 1)

\* C16: processDailyForecast returns min(5, number of dates of the list)
\* entries, one for each of the dates that appear first in the list, in the
\* order in which they first appear; minTemp and maxTemp of an entry are the
\* display values of the lowest and highest temperature among the items of
\* the entry's date, whatever the items of other dates hold.
C16_FirstFiveDatesInOrder ==
    \A r \in Results("processDailyForecast") :
        LET list == r.args[1].list
            unit == r.args[2]
            out  == r.out
        IN /\ Len(out) = IF Cardinality(DatesOf(list)) < 5
                         THEN Cardinality(DatesOf(list)) ELSE 5
           /\ \A k \in 1..Len(out) : out[k].date \in DatesOf(list)
           /\ \A k, l \in 1..Len(out) :
                 k < l => FirstOn(list, out[k].date) < FirstOn(list, out[l].date)
           /\ \A date \in DatesOf(list) :
                 (\A k \in 1..Len(out) : out[k].date # date)
                     => \A k \in 1..Len(out) :
                           FirstOn(list, out[k].date) < FirstOn(list, date)
           /\ \A k \in 1..Len(out) :
                 LET items == ItemsOn(list, out[k].date)
                 IN /\ \E i \in items :
                          /\ \A j \in items : list[i].main.temp <= list[j].main.temp
                          /\ IsDisplayOf(out[k].minTemp, list[i].main.temp, unit)
                    /\ \E i \in items :
                          /\ \A j \in items : list[i].main.temp >= list[j].main.temp
                          /\ IsDisplayOf(out[k].maxTemp, list[i].main.temp, unit)

\* A list of more than 5 dates that do not ascend and come back has given 5
\* entries, the first of them for a date later than that of the second; the
\* coldest item of the list is of a date that got no entry.
C16_Witness ==
    \E r \in Results("processDailyForecast") :
        LET list == r.args[1].list
        IN /\ Cardinality(DatesOf(list)) > 5
           /\ Len(r.out) = 5
           /\ r.out[1].date > r.out[2].date
           /\ Cardinality(ItemsOn(list, r.out[1].date)) > 1
           /\ \E i \in 1..Len(list) :
                 /\ \A j \in 1..Len(list) : list[i].main.temp <= list[j].main.temp
                 /\ \A k \in 1..Len(r.out) : r.out[k].date # DateOf(list, i)

----------------------------------------------------------------------------
(* C17 *)

\* The items of a date that carry a condition.
ItemsWith(list, date, condition) ==
    {i \in ItemsOn(list, date) : list[i].weather[1].main = condition}

\* The conditions of the items of a date.
ConditionsOn(list, date) == {list[i].weather[1].main : i \in ItemsOn(list, date)}

\* The conditions that occur most often among the items of a date.
MostCommonOn(list, date) ==
    { c \in ConditionsOn(list, date) :
        \A d \in ConditionsOn(list, date) :
            Cardinality(ItemsWith(list, date, c)) >= Cardinality(ItemsWith(list, date, d)) }

\* The place at which a condition first occurs among the items of a date.
FirstSeen(list, date, condition) ==
    CHOOSE i \in ItemsWith(list, date, condition) :
        \A j \in ItemsWith(list, date, condition) : i <= j

\* C17, as stated: the condition of an entry is one that occurs most often
\* among the items of its date, and of several such conditions it is the one
\* that occurs first.
C17_TieGoesToFirstCondition ==
    \A r \in Results("processDailyForecast") :
        \A k \in 1..Len(r.out) :
            LET list == r.args[1].list
                date == r.out[k].date
            IN /\ r.out[k].condition \in MostCommonOn(list, date)
               /\ \A c \in MostCommonOn(list, date) :
                     FirstSeen(list, date, r.out[k].condition) <= FirstSeen(list, date, c)

\* C17, amended: the condition of an entry is one that occurs most often
\* among the items of its date, and of several such conditions it is the one
\* whose first occurrence comes last.
C17_TieGoesToLastCondition ==
    \A r \in Results("processDailyForecast") :
        \A k \in 1..Len(r.out) :
            LET list == r.args[1].list
                date == r.out[k].date
            IN /\ r.out[k].condition \in MostCommonOn(list, date)
               /\ \A c \in MostCommonOn(list, date) :
                     FirstSeen(list, date, r.out[k].condition) >= FirstSeen(list, date, c)

\* A date on which two conditions are equally the most frequent has got the
\* one of them that was met second; another date has a single most common
\* condition, met before another condition of that date.
C17_Witness ==
    \E r \in Results("processDailyForecast") :
        \E k, m \in 1..Len(r.out) :
            LET list == r.args[1].list
            IN /\ Cardinality(MostCommonOn(list, r.out[k].date)) = 2
               /\ \E c \in MostCommonOn(list, r.out[k].date) :
                     FirstSeen(list, r.out[k].date, c)
                        < FirstSeen(list, r.out[k].date, r.out[k].condition)
               /\ Cardinality(MostCommonOn(list, r.out[m].date)) = 1
               /\ \E c \in ConditionsOn(list, r.out[m].date) :
                     FirstSeen(list, r.out[m].date, c)
                        > FirstSeen(list, r.out[m].date, r.out[m].condition)

----------------------------------------------------------------------------
(* C18 *)

\* n is Math.round(pop * 100) for a pop given in thousandths.
IsPercentOf(n, pop) == 10 * n - 5 <= pop /\ pop < 10 * n + 5

\* C18: processHourlyForecast returns min(8, n) records for a list of n
\* items; the i-th record has the condition and icon of the i-th item, the
\* display value of its temperature, and its pop times 100, rounded.
C18_FirstEightHours ==
    \A r \in Results("processHourlyForecast") :
        LET list == r.args[1].list
            unit == r.args[2]
            out  == r.out
        IN /\ Len(out) = IF Len(list) < 8 THEN Len(list) ELSE 8
           /\ \A i \in 1..Len(out) :
                 /\ out[i].condition = list[i].weather[1].main
                 /\ out[i].icon = list[i].weather[1].icon
                 /\ IsDisplayOf(out[i].temp, list[i].main.temp, unit)
                 /\ IsPercentOf(out[i].pop, list[i].pop)

\* A list of more than 8 items has given 8 records; the pop 0.125 of its
\* first item has become 13.
C18_Witness ==
    \E r \in Results("processHourlyForecast") :
        /\ Len(r.args[1].list) > 8
        /\ Len(r.out) = 8
        /\ r.args[1].list[1].pop = 125
        /\ r.out[1].pop = 13
        /\ r.out[1].condition # r.out[3].condition

----------------------------------------------------------------------------
(* C19 *)

\* A session is stored.
LoggedIn(storage) == "weather_app_session" \in DOMAIN storage

\* The id of the user of the stored session.
SessionUserId(storage) == storage["weather_app_session"].json.userId

\* The history stored for a user: the empty list when none is stored.
HistoryOf(storage, userId) ==
    IF ("weather_history_" \o userId) \in DOMAIN storage
    THEN storage["weather_history_" \o userId].json
    ELSE <<>>

\* This step is a call of fn.
Calls(fn) == ops'.count = ops.count + 1 /\ ops'.last[1].fn = fn

\* Two city names are equal ignoring case.
SameCity(a, b) == LowerCase(a) = LowerCase(b)

\* C19: with a session, after addToHistory(c) the first entry of the session
\* user's history is for c, carries the time of the call, which no other
\* entry's timestamp exceeds, and no other entry is for a city equal to c
\* ignoring case.
C19_AddedCityIsFirstAndOnly ==
    [][ (Calls("addToHistory") /\ LoggedIn(localStorage))
          => LET city    == ops'.last[1].args[1]
                 history == HistoryOf(localStorage', SessionUserId(localStorage))
             IN /\ Len(history) >= 1
                /\ history[1].city = city
                /\ history[1].timestamp = now'
                /\ \A i \in 2..Len(history) :
                      /\ history[i].timestamp <= history[1].timestamp
                      /\ ~SameCity(history[i].city, city) ]_vars

\* "paris" was added after another call; it is in front of a history of
\* MAX_HISTORY_ITEMS entries none of which is for "Paris".
C19_Witness ==
    /\ LoggedIn(localStorage)
    /\ ops.count >= 2
    /\ ops.last[1].fn = "addToHistory" /\ ops.last[1].args[1] = "paris"
    /\ LET history == HistoryOf(localStorage, SessionUserId(localStorage))
       IN /\ Len(history) = 20
          /\ history[1].city = "paris"
          /\ history[1].timestamp > history[2].timestamp + 1
          /\ \A i \in 1..Len(history) : history[i].city # "Paris"

----------------------------------------------------------------------------
(* C20 *)

\* The users for whom a history is stored.
HistoryOwners(storage) ==
    { userId \in {storage["weather_app_users"].json[u].id :
                    u \in 1..Len(storage["weather_app_users"].json)} :
        ("weather_history_" \o userId) \in DOMAIN storage }

\* C20: no stored history has more than 20 entries; addToHistory of a city
\* that is not in a history of 20 entries, ignoring case, puts the new entry
\* in front of the first 19 of them, in their order, and drops the last.
C20_HistoryIsCapped ==
    /\ [](\A userId \in HistoryOwners(localStorage) :
              Len(HistoryOf(localStorage, userId)) <= 20)
    /\ [][ (Calls("addToHistory") /\ LoggedIn(localStorage))
            => LET city   == ops'.last[1].args[1]
                   before == HistoryOf(localStorage, SessionUserId(localStorage))
                   after  == HistoryOf(localStorage', SessionUserId(localStorage))
               IN (Len(before) = 20
                     /\ \A i \in 1..Len(before) : ~SameCity(before[i].city, city))
                    => /\ Len(after) = 20
                       /\ after[1].city = city
                       /\ \A i \in 1..19 : after[i + 1] = before[i] ]_vars

\* A city was added to a full history: it is in front, the history has 20
\* entries and the oldest of the earlier searches has gone.
C20_Witness ==
    /\ LoggedIn(localStorage)
    /\ ops.count = 1
    /\ ops.last[1].fn = "addToHistory" /\ ops.last[1].args[1] = "Paris"
    /\ LET history == HistoryOf(localStorage, SessionUserId(localStorage))
       IN /\ Len(history) = 20
          /\ history[1].city = "Paris"
          /\ history[20].city = FillerCity(2)
          /\ \A i \in 1..Len(history) : history[i].city # FillerCity(1)

----------------------------------------------------------------------------
(* C21 *)

\* C21: in every state reached by addToHistory, removeHistoryEntry and
\* clearSearchHistory, no stored history has two entries for cities equal
\* ignoring case, and the timestamps of every stored history do not increase
\* from the front to the back.
C21_HistoryDistinctNewestFirst ==
    \A userId \in HistoryOwners(localStorage) :
        LET history == HistoryOf(localStorage, userId)
        IN \A i, j \in 1..Len(history) :
              i < j => /\ ~SameCity(history[i].city, history[j].city)
                       /\ history[i].timestamp >= history[j].timestamp

\* "paris" and "Paris" were added to a history of 19 entries and the last
\* entry was removed: one of the two spellings is left, in front, with the
\* time of its call.
C21_Witness ==
    /\ LoggedIn(localStorage)
    /\ ops.count = 3
    /\ ops.last[1].fn = "removeHistoryEntry"
    /\ LET history == HistoryOf(localStorage, SessionUserId(localStorage))
       IN /\ Len(history) = 19
          /\ history[1].city = "Paris"
          /\ history[1].timestamp = now
          /\ history[2].timestamp < now
          /\ \A i \in 2..Len(history) : history[i].city # "paris"

----------------------------------------------------------------------------
(* C22 *)

\* The users stored: the empty list when none is stored.
Users(storage) ==
    IF "weather_app_users" \in DOMAIN storage THEN storage["weather_app_users"].json ELSE <<>>

\* Two texts are equal ignoring case.
SameText(a, b) == toLowerCase(a) = toLowerCase(b)

\* The arguments and the result of the call this step makes.
Args == ops'.last[1].args

Result == ops'.last[1].result

\* C22: no two stored users have emails equal ignoring case, in every state;
\* registerUser with an email some stored user has, in any letter case, fails
\* and leaves the stored users as they are.
C22_EmailsStayDistinct ==
    /\ [](\A i, j \in 1..Len(Users(localStorage)) :
             i < j => ~SameText(Users(localStorage)[i].email, Users(localStorage)[j].email))
    /\ [][ (Calls("registerUser")
              /\ \E i \in 1..Len(Users(localStorage)) :
                    SameText(Users(localStorage)[i].email, Args[2]))
            => /\ Result.success = FALSE
               /\ Users(localStorage') = Users(localStorage) ]_vars

\* Bo registered as Asha@Mail.com, stored in lower case; the same request
\* made again was refused.
C22_Witness ==
    /\ ops.count = 2
    /\ ops.last[1].fn = "registerUser"
    /\ ops.last[1].args = <<" Bo ", "Asha@Mail.com", "123456">>
    /\ ops.last[1].result = [ success |-> FALSE,
                              message |-> "An account with this email already exists" ]
    /\ Len(Users(localStorage)) = 2
    /\ Users(localStorage)[2].name = "Bo"
    /\ Users(localStorage)[2].email = "asha@mail.com"

----------------------------------------------------------------------------
(* C23 *)

\* The session stored: the empty tuple when none is stored.
StoredSession(storage) ==
    IF "weather_app_session" \in DOMAIN storage
    THEN <<storage["weather_app_session"].json>> ELSE <<>>

\* What is stored under the keys other than the session's.
BesideSession(storage) ==
    [k \in (DOMAIN storage) \ {"weather_app_session"} |-> storage[k]]

\* C23: loginUser(email, password) succeeds exactly when a stored user has
\* that email ignoring case and that very password; when it succeeds the
\* session stored is the one of that user, made at the time of the call, and
\* nothing else changes; when it fails nothing stored changes.
C23_LoginNeedsEmailAndPassword ==
    [][ Calls("loginUser")
         => LET users   == Users(localStorage)
                matches == {i \in 1..Len(users) : /\ SameText(users[i].email, Args[1])
                                                  /\ users[i].password = Args[2]}
            IN /\ Result.success = (matches # {})
               /\ Result.success
                    => /\ \E i \in matches :
                            StoredSession(localStorage') =
                               << [ userId    |-> users[i].id,
                                    name      |-> users[i].name,
                                    email     |-> users[i].email,
                                    loginTime |-> now' ] >>
                       /\ BesideSession(localStorage') = BesideSession(localStorage)
               /\ ~Result.success => localStorage' = localStorage ]_vars

\* The default admin logged in on this page; then a login with Asha's email
\* and a password that is not hers was refused, and the admin's session is
\* still the one stored.
C23_Witness ==
    /\ ops.count = 2
    /\ ops.last[1].fn = "loginUser"
    /\ ops.last[1].args = <<"asha@mail.com", "admin@123">>
    /\ ops.last[1].result = [success |-> FALSE, message |-> "Invalid email or password"]
    /\ \E i \in 1..Len(Users(localStorage)) : Users(localStorage)[i].email = "asha@mail.com"
    /\ StoredSession(localStorage) # <<>>
    /\ StoredSession(localStorage)[1].email = "admin@weather.com"
    /\ StoredSession(localStorage)[1].loginTime = now
    /\ now > 6

----------------------------------------------------------------------------
(* C24 *)

\* A session is stored and a stored user with the session's userId is an
\* admin.
SessionIsAdmin(storage) ==
    /\ StoredSession(storage) # <<>>
    /\ \E i \in 1..Len(Users(storage)) :
          /\ Users(storage)[i].id = StoredSession(storage)[1].userId
          /\ Users(storage)[i].isAdmin = TRUE

Unauthorized == [success |-> FALSE, message |-> "Unauthorized: Admin access required"]

\* C24: without a session, and with a session whose user is not an admin,
\* deleteUser and toggleAdminStatus return the unauthorized failure,
\* getAllUsersAdmin returns null and the stored users stay as they are; with
\* an admin's session getAllUsersAdmin returns the users and the two others
\* do not return the unauthorized failure.
C24_AdminOperationsNeedAdmin ==
    [][ /\ (Calls("deleteUser") \/ Calls("toggleAdminStatus"))
             => IF SessionIsAdmin(localStorage)
                THEN Result # Unauthorized
                ELSE Result = Unauthorized /\ Users(localStorage') = Users(localStorage)
        /\ Calls("getAllUsersAdmin")
             => /\ Result = IF SessionIsAdmin(localStorage)
                            THEN <<Users(localStorage)>> ELSE <<>>
                /\ Users(localStorage') = Users(localStorage) ]_vars

\* Asha, logged in on this page and not an admin, asked to delete the
\* default admin and was refused: the admin is still stored.
C24_Witness ==
    /\ ops.count = 2
    /\ ops.last[1].fn = "deleteUser"
    /\ ops.last[1].args = <<"admin-1">>
    /\ ops.last[1].result = Unauthorized
    /\ StoredSession(localStorage) # <<>>
    /\ StoredSession(localStorage)[1].userId = "2"
    /\ StoredSession(localStorage)[1].loginTime = now
    /\ ~SessionIsAdmin(localStorage)
    /\ \E i \in 1..Len(Users(localStorage)) : Users(localStorage)[i].id = "admin-1"

----------------------------------------------------------------------------
(* C25 *)

\* The place in the stored users of the session's user: the first user with
\* the session's userId, 0 when there is no session or no such user.
SessionIndex(storage) ==
    IF StoredSession(storage) = <<>> THEN 0
    ELSE LET found == {i \in 1..Len(Users(storage)) :
                          Users(storage)[i].id = StoredSession(storage)[1].userId}
         IN IF found = {} THEN 0 ELSE CHOOSE i \in found : \A j \in found : i <= j

\* The records before and after are equal but for the field given.
SameBut(before, after, field) ==
    /\ DOMAIN after = DOMAIN before
    /\ \A f \in (DOMAIN before) \ {field} : after[f] = before[f]

\* C25: with a session whose user is stored, saveSettings(s) returns true;
\* the preferences of that user then have every key of s with the value of
\* s and every other key they had with the value it had; the other users
\* and the other fields of that user are as before.
C25_SaveSettingsMerges ==
    [][ (Calls("saveSettings") /\ SessionIndex(localStorage) # 0)
         => LET i      == SessionIndex(localStorage)
                before == Users(localStorage)
                after  == Users(localStorage')
                s      == Args[1]
            IN /\ Result = TRUE
               /\ Len(after) = Len(before)
               /\ \A j \in 1..Len(before) : j # i => after[j] = before[j]
               /\ SameBut(before[i], after[i], "preferences")
               /\ DOMAIN after[i].preferences = (DOMAIN before[i].preferences) \cup (DOMAIN s)
               /\ \A k \in DOMAIN s : after[i].preferences[k] = s[k]
               /\ \A k \in (DOMAIN before[i].preferences) \ (DOMAIN s) :
                     after[i].preferences[k] = before[i].preferences[k]
               /\ BesideSession(localStorage') =
                     [BesideSession(localStorage) EXCEPT !["weather_app_users"] =
                                                            localStorage'["weather_app_users"]]
               /\ StoredSession(localStorage') = StoredSession(localStorage) ]_vars

\* Asha saved the unit, then the city, the mode and a language: the second
\* call kept the unit, the alerts and the rest of her record, and the default
\* admin's record.
C25_Witness ==
    /\ ops.count = 2
    /\ ops.last[1].fn = "saveSettings"
    /\ ops.last[1].args = << [defaultCity |-> "Paris", darkMode |-> FALSE, language |-> "en"] >>
    /\ ops.last[1].result = TRUE
    /\ SessionIndex(localStorage) = 2
    /\ Users(localStorage)[2].name = "Asha"
    /\ Users(localStorage)[2].preferences =
          [ temperatureUnit |-> "fahrenheit", defaultCity |-> "Paris",
            enableAlerts |-> TRUE, darkMode |-> FALSE, language |-> "en" ]
    /\ Users(localStorage)[1] = DefaultAdmin(1)
    /\ "weather_history_2" \notin DOMAIN localStorage

----------------------------------------------------------------------------
(* C26 *)

\* C26: with a session, after resetSettings() the settings of the session's
\* user, which getSettings() returns, have the default values: temperatureUnit
\* celsius, defaultCity Thiruvananthapuram, enableAlerts true, darkMode true,
\* whatever calls came before.
C26_ResetGivesDefaults ==
    [][ (Calls("resetSettings") /\ SessionIndex(localStorage) # 0)
         => LET settings == getSettings(localStorage', DEFAULT_SETTINGS')
            IN /\ settings = Users(localStorage')[SessionIndex(localStorage)].preferences
               /\ settings.temperatureUnit = "celsius"
               /\ settings.defaultCity = "Thiruvananthapuram"
               /\ settings.enableAlerts = TRUE
               /\ settings.darkMode = TRUE ]_vars

----------------------------------------------------------------------------
(* C27 *)

\* The list without its element at the place i.
Without(list, i) == SubSeq(list, 1, i - 1) \o SubSeq(list, i + 1, Len(list))

----------------------------------------------------------------------------
(* C28 *)

\* This step is a call of a function for admins that is refused: nothing is
\* stored by it.
RefusedAdminCall ==
    /\ Calls("deleteUser") \/ Calls("toggleAdminStatus") \/ Calls("getAllUsersAdmin")
    /\ Result = IF Calls("getAllUsersAdmin") THEN <<>> ELSE Unauthorized
    /\ localStorage' = localStorage

\* C28: logoutUser removes the session and changes nothing else that is
\* stored, and nothing at all when no session is stored; while no session is
\* stored isLoggedIn() is false and getCurrentUser() is null, the calls of
\* deleteUser, toggleAdminStatus and getAllUsersAdmin are refused, and only a
\* loginUser that succeeds stores a session again.
C28_LogoutEndsTheSession ==
    /\ [](StoredSession(localStorage) = <<>>
            => ~isLoggedIn(localStorage) /\ getCurrentUser(localStorage) = <<>>)
    /\ [][ /\ Calls("logoutUser")
                => /\ StoredSession(localStorage') = <<>>
                   /\ BesideSession(localStorage') = BesideSession(localStorage)
                   /\ StoredSession(localStorage) = <<>> => localStorage' = localStorage
           /\ StoredSession(localStorage) = <<>>
                => /\ (Calls("deleteUser") \/ Calls("toggleAdminStatus")
                          \/ Calls("getAllUsersAdmin")) => RefusedAdminCall
                   /\ StoredSession(localStorage') # <<>>
                         => Calls("loginUser") /\ Result.success = TRUE ]_vars

\* Asha logged out and toggleAdminStatus was refused then: no session is
\* stored, her history and her preferences are.
C28_Witness ==
    /\ ops.count = 2
    /\ ops.last[1].fn = "toggleAdminStatus"
    /\ ops.last[1].result = Unauthorized
    /\ StoredSession(localStorage) = <<>>
    /\ HistoryOf(localStorage, "2") = <<HistoryEntry("Paris", <<>>, 5)>>
    /\ Users(localStorage)[2].preferences.temperatureUnit = "fahrenheit"

----------------------------------------------------------------------------
(* C29 *)

\* The text has the form local@domain.tld without whitespace: one "@", not
\* in front, and behind it a "." that is neither next to the "@" nor at the
\* end.
WellFormedEmail(email) ==
    \E p, q \in 1..Len(email) :
        /\ CharAt(email, p) = "@" /\ CharAt(email, q) = "."
        /\ 1 < p /\ p + 1 < q /\ q < Len(email)
        /\ \A i \in 1..Len(email) :
              /\ CharAt(email, i) \notin {" ", "\t"}
              /\ CharAt(email, i) = "@" => i = p

\* C29: registerUser fails and leaves the stored users and the session as
\* they are when the trimmed name has fewer than 2 or more than 50
\* characters, when the email is not of the form local@domain.tld without
\* whitespace, when the password has fewer than 6 characters and when the
\* email is registered already; when it succeeds one user is appended, with
\* isAdmin false and the default preferences, and the users there were and
\* the session are as before.
C29_RegisterValidatesAndAppends ==
    [][ Calls("registerUser")
         => LET users == Users(localStorage)
                after == Users(localStorage')
                bad   == \/ Len(trim(Args[1])) < 2
                         \/ Len(trim(Args[1])) > 50
                         \/ ~WellFormedEmail(Args[2])
                         \/ Len(Args[3]) < 6
                         \/ \E i \in 1..Len(users) : SameText(users[i].email, Args[2])
            IN /\ bad => Result.success = FALSE /\ localStorage' = localStorage
               /\ Result.success = TRUE
                    => /\ Len(after) = Len(users) + 1
                       /\ SubSeq(after, 1, Len(users)) = users
                       /\ after[Len(after)].isAdmin = FALSE
                       /\ after[Len(after)].preferences =
                             [ temperatureUnit |-> "celsius",
                               defaultCity     |-> "Thiruvananthapuram",
                               enableAlerts    |-> TRUE,
                               darkMode        |-> TRUE ]
                       /\ StoredSession(localStorage') = StoredSession(localStorage) ]_vars

----------------------------------------------------------------------------
(* C30 *)

\* The places of the stored users that initializeDefaultAdmin created: the
\* ids of the others are numbers.
DefaultAdmins(storage) ==
    {i \in 1..Len(Users(storage)) :
        /\ Len(Users(storage)[i].id) >= 6
        /\ SubSeq(Users(storage)[i].id, 1, 6) = "admin-"}

\* C30: initializeDefaultAdmin stores the default admin, admin@weather.com
\* with isAdmin true, as the one user when no user is stored and changes
\* nothing stored when a user is stored; in every state at most one user
\* is a default admin.
C30_DefaultAdminOnlyIntoEmptyList ==
    /\ [](Cardinality(DefaultAdmins(localStorage)) <= 1)
    /\ [][ Calls("initializeDefaultAdmin")
            => IF Users(localStorage) = <<>>
               THEN /\ Len(Users(localStorage')) = 1
                    /\ Users(localStorage')[1].email = "admin@weather.com"
                    /\ Users(localStorage')[1].isAdmin = TRUE
                    /\ Users(localStorage')[1].id = "admin-" \o ToString(now')
                    /\ DOMAIN localStorage' = (DOMAIN localStorage) \cup {"weather_app_users"}
                    /\ \A k \in DOMAIN localStorage : localStorage'[k] = localStorage[k]
               ELSE localStorage' = localStorage ]_vars

\* The script ran twice on a storage that was empty: the first run stored
\* the default admin, the second run left it alone.
C30_Witness ==
    /\ ops.count = 2
    /\ ops.last[1].fn = "initializeDefaultAdmin"
    /\ now = 7
    /\ localStorage = [weather_app_users |-> [json |-> <<DefaultAdmin(7)>>]]


----------------------------------------------------------------------------
(* C31 *)

\* This step is a call of addToHistory, removeHistoryEntry or
\* clearSearchHistory.
CallsHistory ==
    Calls("addToHistory") \/ Calls("removeHistoryEntry") \/ Calls("clearSearchHistory")

\* The keys under which histories are stored before or after this step: all
\* but those of the users and of the session.
HistoryKeys ==
    ((DOMAIN localStorage) \cup (DOMAIN localStorage'))
        \ {"weather_app_users", "weather_app_session"}

\* C31: without a session getSearchHistory() returns the empty list and the
\* three functions of the history change nothing stored; with a session they
\* change nothing but the history stored for the session user; every other
\* call, a login or a logout among them, leaves every stored history as it
\* is, so that a user finds the history again after others have used the
\* page.
C31_HistoryBelongsToSessionUser ==
    /\ [](~LoggedIn(localStorage) => getSearchHistory(localStorage) = <<>>)
    /\ [][ /\ (CallsHistory /\ ~LoggedIn(localStorage)) => localStorage' = localStorage
           /\ (CallsHistory /\ LoggedIn(localStorage))
                 => LET own == "weather_history_" \o SessionUserId(localStorage)
                    IN \A k \in ((DOMAIN localStorage) \cup (DOMAIN localStorage')) \ {own} :
                          /\ k \in DOMAIN localStorage /\ k \in DOMAIN localStorage'
                          /\ localStorage'[k] = localStorage[k]
           /\ ~CallsHistory
                 => \A k \in HistoryKeys :
                       /\ k \in DOMAIN localStorage /\ k \in DOMAIN localStorage'
                       /\ localStorage'[k] = localStorage[k] ]_vars

\* Asha searched for Paris at the instant 5 and logged out; the admin logged
\* in and has searched on this page, at the instant 8; Asha has logged in
\* again and her history is the search for Paris.
C31_Witness ==
    /\ ops.count = 2
    /\ ops.last[1].fn = "loginUser" /\ ops.last[1].result.success
    /\ LoggedIn(localStorage) /\ SessionUserId(localStorage) = "2"
    /\ getSearchHistory(localStorage) = <<HistoryEntry("Paris", <<>>, 5)>>
    /\ Len(HistoryOf(localStorage, "admin-1")) >= 1
    /\ HistoryOf(localStorage, "admin-1")[1].timestamp = 8

----------------------------------------------------------------------------
(* C32 *)

\* For a body formatted in celsius and passed to generateWeatherAlerts, the
\* visibility alert is there exactly when the visibility of the body is
\* below 2000 metres and the alert heat/high exactly when its temperature is
\* above 35 degrees.
C32_AlertsOnRawValues ==
    (Displayed /\ shown[1].args[2] = "celsius") =>
        LET data   == shown[1].args[1]
            alerts == shown[2].out[1]
        IN /\ Has(alerts, "visibility", "medium") <=> data.visibility < 2000
           /\ Has(alerts, "heat", "high") <=> data.main.temp > 350

\* C32: for a body formatted in celsius and passed to generateWeatherAlerts,
\* the visibility alert is there exactly when the visibility of the body,
\* rounded to whole kilometres, is below 2, that is when it is below 1500
\* metres, and the alert heat/high exactly when its temperature, rounded to
\* whole degrees, is above 35, that is when it is 35.5 degrees or more.
C32_AlertsOnRoundedValues ==
    (Displayed /\ shown[1].args[2] = "celsius") =>
        LET data   == shown[1].args[1]
            alerts == shown[2].out[1]
        IN /\ Has(alerts, "visibility", "medium") <=> data.visibility < 1500
           /\ Has(alerts, "heat", "high") <=> data.main.temp >= 355

\* A body with a visibility of 1999 metres and 35.4 degrees was formatted in
\* celsius: it shows 2 km and 35 degrees, and neither alert has been made.
C32_Witness ==
    /\ Displayed
    /\ shown[1].args[2] = "celsius"
    /\ shown[1].args[1].visibility = 1999
    /\ shown[1].args[1].main.temp = 354
    /\ shown[1].out[1].visibility = 2
    /\ shown[1].out[1].temperature = 35
    /\ ~Has(shown[2].out[1], "visibility", "medium")
    /\ ~Has(shown[2].out[1], "heat", "high")

----------------------------------------------------------------------------
(* C33 *)

\* The stored users who are admins.
Admins(storage) == {i \in 1..Len(Users(storage)) : Users(storage)[i].isAdmin = TRUE}

\* C33: once initializeDefaultAdmin has run on the empty storage, so that
\* users are stored, at least one stored user is an admin in every state the
\* functions of the authentication and settings modules lead to.
C33_AnAdminRemains ==
    Users(localStorage) # <<>> => Admins(localStorage) # {}

\* Asha, made an admin on an earlier page, has deleted the default admin and
\* has then asked to revoke her own status, which was refused: she is the
\* one admin left.
C33_Witness ==
    /\ ops.count = 2
    /\ ops.last[1].fn = "toggleAdminStatus"
    /\ ops.last[1].args = <<"2">>
    /\ ops.last[1].result.success = FALSE
    /\ LoggedIn(localStorage) /\ SessionUserId(localStorage) = "2"
    /\ \A i \in 1..Len(Users(localStorage)) : Users(localStorage)[i].id # "admin-1"
    /\ Cardinality(Admins(localStorage)) = 1

----------------------------------------------------------------------------
(* C34 *)

\* C34: in every state with a session getCurrentUser() returns a stored
\* user whose id is the userId of the session, and no call of deleteUser
\* removes the user of the session.
C34_SessionUserIsStored ==
    /\ [](LoggedIn(localStorage)
            => /\ getCurrentUser(localStorage) # <<>>
               /\ getCurrentUser(localStorage)[1].id = SessionUserId(localStorage)
               /\ \E i \in 1..Len(Users(localStorage)) :
                     Users(localStorage)[i] = getCurrentUser(localStorage)[1])
    /\ [][ (Calls("deleteUser") /\ LoggedIn(localStorage))
             => /\ LoggedIn(localStorage')
                /\ SessionUserId(localStorage') = SessionUserId(localStorage)
                /\ getCurrentUser(localStorage') = getCurrentUser(localStorage) ]_vars

\* The default admin has logged in on this page and has asked to delete the
\* account of the session, which was refused: the session is the admin's and
\* getCurrentUser() returns the admin.
C34_Witness ==
    /\ ops.count = 2
    /\ ops.last[1].fn = "deleteUser"
    /\ ops.last[1].args = <<"admin-1">>
    /\ ops.last[1].result.success = FALSE
    /\ LoggedIn(localStorage) /\ SessionUserId(localStorage) = "admin-1"
    /\ StoredSession(localStorage)[1].loginTime = 7
    /\ getCurrentUser(localStorage) # <<>>
    /\ getCurrentUser(localStorage)[1].email = "admin@weather.com"

----------------------------------------------------------------------------
(* C35 *)

\* The users stored before this step whose isAdmin is another after it; a
\* user is known by the email, which no two stored users share.
FlagChanged ==
    { i \in 1..Len(Users(localStorage)) :
        \E j \in 1..Len(Users(localStorage')) :
           /\ Users(localStorage')[j].email = Users(localStorage)[i].email
           /\ Users(localStorage')[j].isAdmin # Users(localStorage)[i].isAdmin }

\* C35: the isAdmin of a stored user changes only in a call of
\* toggleAdminStatus that succeeds, made with the session of an admin for
\* the id of another user, and only for a user with that id; a user
\* registerUser stores has isAdmin false.  So no call of loginUser,
\* logoutUser, saveSettings, updateSetting, resetSettings, addToHistory,
\* removeHistoryEntry or clearSearchHistory changes it.
C35_OnlyToggleChangesIsAdmin ==
    [][ /\ FlagChanged # {}
              => /\ Calls("toggleAdminStatus")
                 /\ Result.success
                 /\ SessionIsAdmin(localStorage)
                 /\ Args[1] # SessionUserId(localStorage)
                 /\ \A i \in FlagChanged : Users(localStorage)[i].id = Args[1]
        /\ (Calls("registerUser") /\ Result.success)
              => /\ Len(Users(localStorage')) = Len(Users(localStorage)) + 1
                 /\ Users(localStorage')[Len(Users(localStorage'))].isAdmin = FALSE ]_vars

\* The admin, logged in after Asha's search and logout, has searched on this
\* page and has then made Asha an admin.
C35_Witness ==
    /\ ops.count = 2
    /\ ops.last[1].fn = "toggleAdminStatus"
    /\ ops.last[1].args = <<"2">>
    /\ ops.last[1].result.success /\ ops.last[1].result.isAdmin
    /\ LoggedIn(localStorage) /\ SessionUserId(localStorage) = "admin-1"
    /\ Len(HistoryOf(localStorage, "admin-1")) >= 1
    /\ HistoryOf(localStorage, "admin-1")[1].timestamp = 8
    /\ Cardinality(Admins(localStorage)) = 2

----------------------------------------------------------------------------
(* C36 *)

\* C36: without a session, a call of updateSetting, toggleTemperatureUnit,
\* toggleDarkMode or resetSettings leaves the storage as it is, updateSetting
\* and resetSettings return false, and the object of the default settings,
\* which later calls of getSettings() return and a later resetSettings()
\* saves, is after the call what it was before.
C36_NoSessionNoChange ==
    [][ ( /\ ~LoggedIn(localStorage)
          /\ \/ Calls("updateSetting") \/ Calls("toggleTemperatureUnit")
             \/ Calls("toggleDarkMode") \/ Calls("resetSettings") )
         => /\ localStorage' = localStorage
            /\ (Calls("updateSetting") \/ Calls("resetSettings")) => Result = FALSE
            /\ DEFAULT_SETTINGS' = DEFAULT_SETTINGS
            /\ getSettings(localStorage', DEFAULT_SETTINGS')
                  = getSettings(localStorage, DEFAULT_SETTINGS) ]_vars

----------------------------------------------------------------------------
(* C37 *)

\* The calls of fetchWeatherByCoordinates that begin or go on in this step.
CoordinatesSteps ==
    { i \in 1..Len(calls') :
        /\ calls'[i].kind = "coordinates"
        /\ (i > Len(calls) \/ calls'[i] # calls[i]) }

\* C37: a call of fetchWeatherByCoordinates begins with its request whatever
\* the cache holds, has made exactly one request at every point, and no step
\* of it, to a return or to a throw, changes either map of the cache.
C37_CoordinatesLeaveTheCache ==
    /\ [](\A i \in 1..Len(calls) : calls[i].kind = "coordinates" => calls[i].reqs = 1)
    /\ [][ /\ CoordinatesSteps # {} => weatherCache' = weatherCache
           /\ \A i \in CoordinatesSteps :
                 i > Len(calls) => (calls'[i].pc = "fetch" /\ calls'[i].value = <<>>) ]_vars

\* "Paris" was fetched by name and is cached, not 10 minutes ago; a call by
\* coordinates that began after that has returned the other body with the
\* name Paris, after one request, and the cache holds the entry as it was.
C37_Witness ==
    \E i, j \in 1..Len(calls) :
       /\ calls[i].kind = "current" /\ calls[i].pc = "returned" /\ calls[i].reqs = 1
       /\ isCacheValid(weatherCache.current, "Paris", now)
       /\ weatherCache.current["Paris"].data = calls[i].value[1]
       /\ i < j
       /\ calls[j].kind = "coordinates" /\ calls[j].pc = "returned" /\ calls[j].reqs = 1
       /\ calls[j].value[1].name = "Paris"
       /\ calls[j].value[1] # weatherCache.current["Paris"].data
       /\ weatherCache.forecast = EmptyMap
====
